---- MODULE Spec2Model ----
(***************************************************************************)
(* A model of duplis (MattiKrause/duplis): the grouping of hashed files    *)
(* into sets (main.rs), the set orderings (set_order.rs), the pipeline's   *)
(* finalisation loop and the set consumers (set_consumer.rs) with their    *)
(* file actions (file_action.rs).                                          *)
(*                                                                         *)
(* Each part of the program has its own variables and its own              *)
(* specification; a specification leaves the other parts' variables at     *)
(* their initial values.                                                   *)
(*   SpecGroup    place_into_file_set / hash_file over the grouping map    *)
(*   SpecOrder    the set orderings applied to one set                     *)
(*   SpecRun      main's finalisation loop with the unconditional and the  *)
(*                interactive consumer and their file actions              *)
(*   SpecMachine  consume_set calls on a machine-readable consumer         *)
(*   SpecStack    the stack of orderings parse_set_order builds, applied   *)
(*                to one set                                               *)
(*   SpecFilter   the file filters (file_filters.rs) applied to one file   *)
(*   SpecPath     LinkedPath values (util.rs) built by their constructors  *)
(*   SpecSink     threads calling put on clones of a DedupingInputSink     *)
(*   SpecWalk     DiscoveringInputSource::consume_all over a directory     *)
(*                tree; SpecWalkLive adds that the loop keeps running      *)
(*   SpecSize     the file size parser applied to one size literal         *)
(*   SpecPipe     main's finalisation loop with the stack the command line *)
(*                declares, on platforms with and without creation times   *)
(*   SpecVerify   place_into_file_set with a checker that can report both  *)
(*                files as faulty                                          *)
(*   SpecChain    FileSetRefiners::check_equal on two files                *)
(*   SpecOption   the size filters built from the command line's size      *)
(*                options, applied to one file                             *)
(***************************************************************************)
EXTENDS Integers, Sequences, FiniteSets, TLC

VARIABLES
    exists,     \* file system: the files that exist and can be opened
    target,     \* main.rs:104 the grouping map: composite digest -> bucket
    refiners,   \* main.rs:102 the refiner chain, sorted by work severity
    placeCall,  \* what the last place_into_file_set call read and returned
    nCalls,     \* number of place_into_file_set calls made so far
    nVanish,    \* number of files the environment removed so far
    chainCall,  \* the last FileSetRefiners::check_equal call and its result
    mtime,      \* file system: each file's modification time
    hasModTime, \* platform: whether Metadata::modified() is available
    ctime,      \* creation time of each file when the set is ordered
    hasCreateTime, \* platform: whether Metadata::created() is available
    symlinks,   \* the files that are symbolic links
    ordFiles,   \* set_order.rs:7 the set (files) an ordering works on
    ordIn,      \* the set as it was handed to the last order call
    ordLast,    \* the last order call: which ordering, reversed, result
    nOrders,    \* number of order calls made on the set
    declared,   \* the setorder options as the user gave them
    stack,      \* parse_set_order's result
    stackPc,    \* how often the stack was applied to the set
    ordOnce,    \* the set after the stack was applied once
    orderSet,   \* main.rs:87 order_set, the stack of orderings
    consumer,   \* main.rs:87 file_set_action: which set consumer runs
    fileAction, \* the consumer's FileConsumeAction
    runPc,      \* where main's finalisation loop stands (main.rs:116-132)
    handed,     \* the set as the last consume_set call received it
    curSet,     \* consume_set's set, once the original is found
    dupIdx,     \* position in curSet of the duplicate to handle next
    lastEvent,  \* what the consumer did last for a duplicate
    consumeRet, \* the result of the last consume_set call
    fatalSeen,  \* whether a file action returned Fatal in this run
    startAlive, \* how many members of handed existed when it was handed
    recovered,  \* whether an action returned Recoverable in this call
    orderErr,   \* whether an ordering returned an error in this run
    takenLen,   \* the length main found the last set of the map to have
    mKind,      \* which machine-readable consumer is in use
    mOut,       \* the bytes its writer has received
    written_before, \* the consumer's field of that name
    mRet,       \* the result of its last consume_set call
    mLines,     \* history: the lines the sets handed to it so far call for
    nConsume,   \* number of consume_set calls made on it
    filter,     \* file_filters.rs: the filter that was constructed
    filterCall, \* the file the filter was last asked about and its answer
    lpA,        \* util.rs:40 a LinkedPath value and the constructor it is from
    lpB,        \* a second LinkedPath value
    seen,       \* input_source.rs:12 the DashSet the sink's clones share
    sinkOut,    \* the paths the downstream sink received, in order
    sinkPc,     \* per thread: the path its put call is about to forward
    nPut,       \* per path: the number of put calls made with it
    recurse,    \* input_source.rs:69 walk the directories recursively
    follow_symlink, \* input_source.rs:70
    linkTarget, \* file system: what each symbolic link points to
    sources,    \* input_source.rs:72 the directories still to walk
    walkOut,    \* the paths consume_all has put into the sink
    walkPc,     \* whether consume_all is in its loop or has returned
    sizeArg,    \* the size literal given to --minsize / --maxsize
    sizeSt,     \* where parse_ref stands and its local variables
    sizeRet     \* parse_ref's result for it

groupVars == <<target, refiners, placeCall, nCalls, nVanish, chainCall>>
orderVars == <<mtime, hasModTime, ctime, hasCreateTime, symlinks,
               ordFiles, ordIn, ordLast, nOrders, declared, stack, stackPc,
               ordOnce>>
runVars == <<orderSet, consumer, fileAction, runPc, handed, curSet, dupIdx,
             lastEvent, consumeRet, fatalSeen, startAlive, recovered, orderErr,
             takenLen>>
machineVars == <<mKind, mOut, written_before, mRet, mLines, nConsume>>
filterVars == <<filter, filterCall>>
pathVars == <<lpA, lpB>>
sinkVars == <<seen, sinkOut, sinkPc, nPut>>
walkVars == <<recurse, follow_symlink, linkTarget, sources, walkOut, walkPc>>
sizeVars == <<sizeArg, sizeSt, sizeRet>>
inputVars == <<filterVars, pathVars, sinkVars, walkVars, sizeVars>>
vars == <<exists, groupVars, orderVars, runVars, machineVars, inputVars>>

(***************************************************************************)
(* The files of the model and their (immutable) content and mode.  A       *)
(* content is the sequence of the file's bytes.  "a", "b" and "d" hold the *)
(* same bytes, "c" holds other bytes with the same content digest; "d"     *)
(* has another mode than the rest.                                         *)
(***************************************************************************)
Files == {"a", "b", "c", "d"}

FileContent(f) ==
    CASE f = "c" -> <<5>>
      [] OTHER   -> <<1>>

FileMode(f) ==
    CASE f = "d" -> 33261    \* 0o100755
      [] OTHER   -> 33188    \* 0o100644

\* The modification time a file has when the run starts.
FileMTime(f) ==
    CASE f \in {"b", "d"} -> 2
      [] OTHER            -> 1

\* Bounds of the model.
MaxCalls == 3     \* place_into_file_set calls in one run
MaxVanish == 1    \* files that disappear during one run
HashSpace == 4    \* number of distinct digests

\* Option<SystemTime>: None is <<>>, Some(t) is <<t>>.
NoTime == <<>>

SomeTime(t) == <<t>>

\* The finalisation loop before it starts.
NoEvent == [kind |-> "none", line |-> <<>>, path |-> "none",
            original |-> "none", result |-> "none"]

NoFilter == [kind |-> "none"]

NoFilterCall == [kind |-> "none"]

FilterIdle ==
    /\ filter = NoFilter
    /\ filterCall = NoFilterCall

NoPath == [how |-> "none", lp |-> <<>>]

PathIdle ==
    /\ lpA = NoPath
    /\ lpB = NoPath

SinkIdle ==
    /\ seen = {}
    /\ sinkOut = <<>>
    /\ sinkPc = <<>>
    /\ nPut = <<>>

WalkIdle ==
    /\ recurse = FALSE
    /\ follow_symlink = FALSE
    /\ linkTarget = <<>>
    /\ sources = <<>>
    /\ walkOut = {}
    /\ walkPc = "none"

NoSize == [radix |-> 0]

NoSizeResult == [kind |-> "none"]

SizeIdle ==
    /\ sizeArg = NoSize
    /\ sizeSt = [pc |-> "none"]
    /\ sizeRet = NoSizeResult

InputIdle ==
    /\ FilterIdle
    /\ PathIdle
    /\ SinkIdle
    /\ WalkIdle
    /\ SizeIdle

RunIdle ==
    /\ orderSet = <<>>
    /\ consumer = "none"
    /\ fileAction = "none"
    /\ runPc = "done"
    /\ handed = <<>>
    /\ curSet = <<>>
    /\ dupIdx = 0
    /\ lastEvent = NoEvent
    /\ consumeRet = "none"
    /\ fatalSeen = FALSE
    /\ startAlive = 0
    /\ recovered = FALSE
    /\ orderErr = FALSE
    /\ takenLen = 0

\* A machine-readable consumer that is not in use.
MachineIdle ==
    /\ mKind = "none"
    /\ mOut = <<>>
    /\ written_before = FALSE
    /\ mRet = "none"
    /\ mLines = <<>>
    /\ nConsume = 0

\* The grouping stage before its first call (main.rs:104).
NoCall == [file |-> "none", before |-> NoTime, after |-> NoTime,
           err |-> "none", ret |-> "none"]

\* No FileSetRefiners::check_equal call was made.
NoChainCall == [a |-> "none", b |-> "none",
                ret |-> [ok |-> FALSE, err |-> "none", eq |-> FALSE]]

GroupIdle ==
    /\ target = [h \in 0..(HashSpace - 1) |-> <<>>]
    /\ refiners = <<>>
    /\ placeCall = NoCall
    /\ nCalls = 0
    /\ nVanish = 0
    /\ chainCall = NoChainCall

(***************************************************************************)
(* The hasher.  Xxh3 is modelled by its interface: a state that absorbs    *)
(* the written words in order and a digest that is a function of that      *)
(* state; the digest is not injective (the program verifies byte-wise      *)
(* because digests collide).                                               *)
(***************************************************************************)
HasherDefault == 0

HasherWrite(h, w) == (h * 3 + w) % HashSpace

RECURSIVE HasherWriteAll(_, _)
HasherWriteAll(h, bytes) ==
    IF bytes = <<>> THEN h
    ELSE HasherWriteAll(HasherWrite(h, Head(bytes)), Tail(bytes))

Digest128(h) == h

\* main.rs:272-277 hash_source: feeds the bytes read into the hasher.
hash_source(h, bytes) == HasherWriteAll(h, bytes)

\* hash_file without the comparison of the two modification times.
hash_file_Unchecked(canOpen, bytes, before_mod_time, after_mod_time) ==
    IF ~canOpen
    THEN [ok |-> FALSE, err |-> "IO", hash |-> HasherDefault, modtime |-> NoTime]
    ELSE [ok |-> TRUE, err |-> "none",
          hash |-> hash_source(HasherDefault, bytes), modtime |-> before_mod_time]

(***************************************************************************)
(* main.rs:255-270 hash_file.  The file is opened (an io error when it     *)
(* cannot be), its modification time is read before and after hashing;     *)
(* the result is the hasher and the time read first, or FileChanged.       *)
(***************************************************************************)
hash_file(canOpen, bytes, before_mod_time, after_mod_time) ==
    IF ~canOpen
    THEN [ok |-> FALSE, err |-> "IO", hash |-> HasherDefault, modtime |-> NoTime]
    ELSE IF before_mod_time = after_mod_time
    THEN [ok |-> TRUE, err |-> "none",
          hash |-> hash_source(HasherDefault, bytes), modtime |-> before_mod_time]
    ELSE [ok |-> FALSE, err |-> "FileChanged", hash |-> HasherDefault, modtime |-> NoTime]

(***************************************************************************)
(* The refiners.  file_set_refiner.rs:107-145 FileContentEquals and        *)
(* os/unix_specific.rs:101-129 PermissionEqualChecker.  ex is the set of   *)
(* files that can be opened when the refiner runs.                         *)
(***************************************************************************)
PermMask == 512

PermBits(mode) == mode % PermMask

\* file_set_refiner.rs:64-72 FileWorkload
work_severity(refiner) ==
    CASE refiner = "perm"    -> 1
      [] refiner = "probe"   -> 1
      [] refiner = "content" -> 2

\* The chains the command line can configure, sorted by work severity
\* (main.rs:103).
RefinerChains == {<<>>, <<"perm">>, <<"content">>, <<"perm", "content">>}

\* byte-wise comparison: the lengths first, then the bytes in lockstep.
ContentEquals(ba, bb) ==
    IF Len(ba) # Len(bb) THEN FALSE
    ELSE \A i \in 1..Len(ba) : ba[i] = bb[i]

\* file_set_refiner.rs:75-84: place_into_file_set takes any
\* FileEqualsChecker.  "probe" is a checker that reads the metadata of
\* both files before it reports, so that it can name both sides
\* (CheckEqualsErrorOn::Both, file_set_refiner.rs:41-45), and compares
\* nothing; its hash component writes nothing.
probe_check_equal(a, b, ex) ==
    CASE a \notin ex /\ b \notin ex -> [ok |-> FALSE, err |-> "Both", eq |-> FALSE]
      [] a \notin ex /\ b \in ex    -> [ok |-> FALSE, err |-> "First", eq |-> FALSE]
      [] a \in ex /\ b \notin ex    -> [ok |-> FALSE, err |-> "Second", eq |-> FALSE]
      [] OTHER                       -> [ok |-> TRUE, err |-> "none", eq |-> TRUE]

refiner_check_equal(refiner, a, b, ex) ==
    IF refiner = "probe" THEN probe_check_equal(a, b, ex)
    ELSE IF a \notin ex THEN [ok |-> FALSE, err |-> "First", eq |-> FALSE]
    ELSE IF b \notin ex THEN [ok |-> FALSE, err |-> "Second", eq |-> FALSE]
    ELSE IF refiner = "content"
    THEN [ok |-> TRUE, err |-> "none",
          eq |-> ContentEquals(FileContent(a), FileContent(b))]
    ELSE [ok |-> TRUE, err |-> "none",
          eq |-> PermBits(FileMode(a)) = PermBits(FileMode(b))]

\* hash_component: content writes nothing; perm writes the nine mode bits
\* and fails when the metadata cannot be read.
refiner_hash_component(refiner, f, h, ex) ==
    IF refiner \in {"content", "probe"} THEN [ok |-> TRUE, hash |-> h]
    ELSE IF f \notin ex THEN [ok |-> FALSE, hash |-> h]
    ELSE [ok |-> TRUE, hash |-> HasherWrite(h, PermBits(FileMode(f)))]

\* main.rs:208-210: every refiner's hash component, in chain order; the
\* first failure ends the call.
RECURSIVE hash_components(_, _, _, _)
hash_components(refs, f, h, ex) ==
    IF refs = <<>> THEN [ok |-> TRUE, hash |-> h]
    ELSE LET r == refiner_hash_component(Head(refs), f, h, ex)
         IN IF ~r.ok THEN r ELSE hash_components(Tail(refs), f, r.hash, ex)

\* file_set_refiner.rs:47-54 CheckEqualsErrorOn::is_faulty
is_faulty(err) ==
    CASE err = "First"  -> <<TRUE, FALSE>>
      [] err = "Second" -> <<FALSE, TRUE>>
      [] err = "Both"   -> <<TRUE, TRUE>>

(***************************************************************************)
(* main.rs:229-247, the loop over the refiners for one set.  Its outcome   *)
(* is what the set loop does next:                                         *)
(*   "push"        every refiner returned Ok(true): fall through to push   *)
(*   "removePush"  first side faulty: set.remove(0), break, and the code   *)
(*                 after the loop pushes the file (main.rs:235-236,249)    *)
(*   "abandon"     second side faulty: return Err(AlreadyReportedError)    *)
(*   "nextSet"     a refiner returned Ok(false): continue 'set_loop        *)
(***************************************************************************)
RECURSIVE RefinerLoop(_, _, _, _)
RefinerLoop(refs, first, file, ex) ==
    IF refs = <<>> THEN "push"
    ELSE LET r == refiner_check_equal(Head(refs), first, file, ex)
         IN IF ~r.ok
            THEN IF is_faulty(r.err)[1] THEN "removePush"
                 ELSE IF is_faulty(r.err)[2] THEN "abandon"
                 ELSE RefinerLoop(Tail(refs), first, file, ex)
            ELSE IF ~r.eq THEN "nextSet"
            ELSE RefinerLoop(Tail(refs), first, file, ex)

\* main.rs:73-76 HashedFile
HashedFile(modtime, f) == [file_version_timestamp |-> modtime, file_path |-> f]

(***************************************************************************)
(* main.rs:217-252, the loop over the sets of the bucket whose content     *)
(* digest is file_hash, from index i on.  Returns the bucket and the       *)
(* call's result.  When no set takes the file the loop ends and the call   *)
(* returns Ok with the bucket as it is.                                    *)
(***************************************************************************)
RECURSIVE SetLoop(_, _, _, _, _, _)
SetLoop(bucket, i, file_hash, hf, refs, ex) ==
    IF i > Len(bucket) THEN [bucket |-> bucket, ret |-> "Ok"]
    ELSE IF bucket[i][1] # file_hash
    THEN SetLoop(bucket, i + 1, file_hash, hf, refs, ex)
    ELSE LET set == bucket[i][2]
         IN IF set = <<>>
            THEN [bucket |-> [bucket EXCEPT ![i] = <<file_hash, <<hf>>>>],
                  ret |-> "Ok"]
            ELSE LET out == RefinerLoop(refs, set[1].file_path, hf.file_path, ex)
                 IN CASE out = "push" ->
                           [bucket |-> [bucket EXCEPT ![i] = <<file_hash, Append(set, hf)>>],
                            ret |-> "Ok"]
                      [] out = "removePush" ->
                           [bucket |-> [bucket EXCEPT ![i] =
                                           <<file_hash, Append(Tail(set), hf)>>],
                            ret |-> "Ok"]
                      [] out = "abandon" ->
                           [bucket |-> bucket, ret |-> "AlreadyReportedError"]
                      [] out = "nextSet" ->
                           SetLoop(bucket, i + 1, file_hash, hf, refs, ex)

\* main.rs:110 find_set: target.entry(hash).or_insert(Vec::new())
find_set(tgt, hash) == tgt[hash]

\* place_into_file_set looking the bucket up under the content digest
\* instead of the digest taken after the refiners' hash components.
place_into_file_set_ContentKey(tgt, f, hashed, refs, exComp, exCheck) ==
    IF ~hashed.ok THEN [target |-> tgt, ret |-> "AlreadyReportedError"]
    ELSE LET file_hash == Digest128(hashed.hash)
             comp == hash_components(refs, f, hashed.hash, exComp)
             hf == HashedFile(hashed.modtime, f)
         IN IF ~comp.ok THEN [target |-> tgt, ret |-> "AlreadyReportedError"]
            ELSE LET key == file_hash
                     course_set == find_set(tgt, key)
                 IN IF course_set = <<>>
                    THEN [target |-> [tgt EXCEPT ![key] = <<<<file_hash, <<hf>>>>>>],
                          ret |-> "Ok"]
                    ELSE LET r == SetLoop(course_set, 1, file_hash, hf, refs, exCheck)
                         IN [target |-> [tgt EXCEPT ![key] = r.bucket], ret |-> r.ret]

(***************************************************************************)
(* main.rs:187-253 place_into_file_set.  hashed is hash_file's result,     *)
(* exComp the files readable when the hash components are taken and        *)
(* exCheck the files readable during verification.  Returns the map and    *)
(* the result.                                                             *)
(***************************************************************************)
place_into_file_set(tgt, f, hashed, refs, exComp, exCheck) ==
    IF ~hashed.ok THEN [target |-> tgt, ret |-> "AlreadyReportedError"]
    ELSE LET file_hash == Digest128(hashed.hash)
             comp == hash_components(refs, f, hashed.hash, exComp)
             hf == HashedFile(hashed.modtime, f)
         IN IF ~comp.ok THEN [target |-> tgt, ret |-> "AlreadyReportedError"]
            ELSE LET key == Digest128(comp.hash)
                     course_set == find_set(tgt, key)
                 IN IF course_set = <<>>
                    THEN [target |-> [tgt EXCEPT ![key] = <<<<file_hash, <<hf>>>>>>],
                          ret |-> "Ok"]
                    ELSE LET r == SetLoop(course_set, 1, file_hash, hf, refs, exCheck)
                         IN [target |-> [tgt EXCEPT ![key] = r.bucket], ret |-> r.ret]

(***************************************************************************)
(* The set orderings, set_order.rs.                                        *)
(***************************************************************************)
MaxSetLen == 3    \* bound: files in one set

\* The files the ordered sets are made of.
OrdFiles == {"a", "b", "c"}

\* The modification times the file system may hold when the set is ordered.
MTimeTables ==
    { [f \in Files |-> FileMTime(f)],
      [f \in Files |-> 1],
      [f \in Files |-> CASE f = "a" -> 3 [] f = "b" -> 2 [] OTHER -> 1] }

NoOrder == [kind |-> "none", reverse |-> FALSE, ret |-> "none"]

\* Creation times: a and b were created together, d last.
FileCTime(f) == CASE f = "d" -> 3 [] f = "c" -> 2 [] OTHER -> 1

\* The metadata the orderings read, unless a specification draws it anew.
MetaIdle ==
    /\ mtime = [f \in Files |-> FileMTime(f)]
    /\ hasModTime = TRUE
    /\ ctime = [f \in Files |-> FileCTime(f)]
    /\ hasCreateTime = TRUE
    /\ symlinks = {}

OrderIdle ==
    /\ MetaIdle
    /\ ordFiles = <<>>
    /\ ordIn = <<>>
    /\ ordLast = NoOrder
    /\ nOrders = 0
    /\ declared = <<>>
    /\ stack = <<>>
    /\ stackPc = "none"
    /\ ordOnce = <<>>

\* Ord::cmp on two keys, as -1 (Less), 0 (Equal), 1 (Greater).
KeyCmp(k1, k2) == IF k1 < k2 THEN -1 ELSE IF k1 = k2 THEN 0 ELSE 1

\* set_order.rs:78-81 the comparator handed to sort_by.
OrderCmp(e1, e2, reverse) ==
    LET ordering == KeyCmp(e1[1], e2[1])
    IN IF reverse THEN -ordering ELSE ordering

\* An insertion that puts x before the elements equal to it.
RECURSIVE InsertSorted_BeforeEqual(_, _, _)
InsertSorted_BeforeEqual(sorted, x, reverse) ==
    IF sorted = <<>> THEN <<x>>
    ELSE IF OrderCmp(Head(sorted), x, reverse) < 0
    THEN <<Head(sorted)>> \o InsertSorted_BeforeEqual(Tail(sorted), x, reverse)
    ELSE <<x>> \o sorted

(***************************************************************************)
(* slice::sort_by is a stable sort: it is modelled as the insertion of     *)
(* each element, in input order, behind the elements that do not compare   *)
(* greater than it.                                                        *)
(***************************************************************************)
RECURSIVE InsertSorted(_, _, _)
InsertSorted(sorted, x, reverse) ==
    IF sorted = <<>> THEN <<x>>
    ELSE IF OrderCmp(Head(sorted), x, reverse) <= 0
    THEN <<Head(sorted)>> \o InsertSorted(Tail(sorted), x, reverse)
    ELSE <<x>> \o sorted

\* Vec::reverse
Reverse(v) == [k \in 1..Len(v) |-> v[Len(v) + 1 - k]]

RECURSIVE SortBy_FromBack(_, _, _)
SortBy_FromBack(buf, done, reverse) ==
    IF buf = <<>> THEN done
    ELSE SortBy_FromBack(SubSeq(buf, 1, Len(buf) - 1),
                         InsertSorted(done, buf[Len(buf)], reverse), reverse)

RECURSIVE SortBy(_, _, _)
SortBy(buf, done, reverse) ==
    IF buf = <<>> THEN done
    ELSE SortBy(Tail(buf), InsertSorted(done, Head(buf), reverse), reverse)

(***************************************************************************)
(* set_order.rs:68-76, the loop that drains files into file_buf.  A file   *)
(* whose symlink_metadata cannot be read is left out; when key_extract     *)
(* fails the call returns at once, and the drained vector stays empty.     *)
(* keys[f] is the key key_extract gives for file f, keyOk whether          *)
(* key_extract succeeds on this platform.                                  *)
(***************************************************************************)
RECURSIVE DrainKeys(_, _, _, _, _)
DrainKeys(files, buf, keys, keyOk, ex) ==
    IF files = <<>> THEN [ok |-> TRUE, buf |-> buf]
    ELSE LET file_data == Head(files)
         IN IF file_data.file_path \notin ex
            THEN DrainKeys(Tail(files), buf, keys, keyOk, ex)
            ELSE IF ~keyOk THEN [ok |-> FALSE, buf |-> buf]
            ELSE DrainKeys(Tail(files),
                           Append(buf, <<keys[file_data.file_path], file_data>>),
                           keys, keyOk, ex)

\* set_order.rs:64-85 MetadataSetOrder::order
MetadataSetOrder_order(files, reverse, keys, keyOk, ex) ==
    LET drained == DrainKeys(files, <<>>, keys, keyOk, ex)
    IN IF ~drained.ok
       THEN [files |-> <<>>, ret |-> "AlreadyReportedError"]
       ELSE LET file_buf == SortBy(drained.buf, <<>>, reverse)
            IN [files |-> [k \in 1..Len(file_buf) |-> file_buf[k][2]], ret |-> "Ok"]

\* set_order.rs:89-98 ModTimeSetOrder::order
ModTimeSetOrder_order(files, reverse, mt, modOk, ex) ==
    MetadataSetOrder_order(files, reverse, mt, modOk, ex)

\* set_order.rs:48-52 NoopSetOrder::order
NoopSetOrder_order(files) == [files |-> files, ret |-> "Ok"]

\* A creation-time ordering whose failure leaves the set as it was.
CreateTimeSetOrder_order_KeepsFiles(files, reverse, ct, createOk, ex) ==
    LET r == MetadataSetOrder_order(files, reverse, ct, createOk, ex)
    IN IF r.ret = "Ok" THEN r ELSE [files |-> files, ret |-> r.ret]

\* set_order.rs:101-110 CreateTimeSetOrder::order
CreateTimeSetOrder_order(files, reverse, ct, createOk, ex) ==
    MetadataSetOrder_order(files, reverse, ct, createOk, ex)

\* set_order.rs:112-116 SymlinkSetOrder::order: the key is is_symlink(),
\* false before true; the ordering is only built by Default, not reversed.
SymlinkSetOrder_order(files, links, ex) ==
    MetadataSetOrder_order(files, FALSE,
                           [f \in Files |-> IF f \in links THEN 1 ELSE 0], TRUE, ex)

\* The path of each file as its components, each a sequence of bytes:
\* "d/a", "d/b", "d/ab" and "c/z".
FileSegments(f) ==
    CASE f = "a" -> << <<100>>, <<97>> >>
      [] f = "b" -> << <<100>>, <<98>> >>
      [] f = "c" -> << <<100>>, <<97, 98>> >>
      [] f = "d" -> << <<99>>, <<122>> >>

\* Ord::cmp on two byte strings
RECURSIVE BytesCmp(_, _)
BytesCmp(x, y) ==
    IF x = <<>> THEN (IF y = <<>> THEN 0 ELSE -1)
    ELSE IF y = <<>> THEN 1
    ELSE IF Head(x) # Head(y) THEN KeyCmp(Head(x), Head(y))
    ELSE BytesCmp(Tail(x), Tail(y))

\* Path::cmp, which compares component by component
RECURSIVE PathCmp(_, _)
PathCmp(p, q) ==
    IF p = <<>> THEN (IF q = <<>> THEN 0 ELSE -1)
    ELSE IF q = <<>> THEN 1
    ELSE LET c == BytesCmp(Head(p), Head(q))
         IN IF c # 0 THEN c ELSE PathCmp(Tail(p), Tail(q))

\* set_order.rs:137-140 compares the names with Path::cmp; here each name
\* is given the number of names below it, which compares the same way.
NameKey(f) ==
    Cardinality({g \in Files : PathCmp(FileSegments(g), FileSegments(f)) < 0})

\* set_order.rs:120-147 NameAlphabeticSetOrder::order; it reads no
\* metadata and keeps every file.
NameAlphabeticSetOrder_order(files, reverse) ==
    LET sort_buf == SortBy([k \in 1..Len(files) |->
                               <<NameKey(files[k].file_path), files[k]>>],
                           <<>>, reverse)
    IN [files |-> [k \in 1..Len(sort_buf) |-> sort_buf[k][2]], ret |-> "Ok"]

\* What the orderings read of the file system and the platform.
Meta ==
    [mtime |-> mtime, modOk |-> hasModTime, ctime |-> ctime,
     createOk |-> hasCreateTime, symlinks |-> symlinks]

\* The orderings of the command line (parse_cli/mod.rs:498-507) modelled
\* so far.
OrderNames == {"modtime", "rmodtime", "as_is"}

\* Every ordering of parse_cli/mod.rs:498-507, and the symlink ordering
\* of set_order.rs:112-116.
AllOrderNames ==
    {"modtime", "rmodtime", "createtime", "rcreatetime", "alphabetic",
     "ralphabetic", "as_is", "symlink"}

SetOrder_order(name, files, meta, ex) ==
    CASE name = "modtime"  ->
            ModTimeSetOrder_order(files, FALSE, meta.mtime, meta.modOk, ex)
      [] name = "rmodtime" ->
            ModTimeSetOrder_order(files, TRUE, meta.mtime, meta.modOk, ex)
      [] name = "createtime" ->
            CreateTimeSetOrder_order(files, FALSE, meta.ctime, meta.createOk, ex)
      [] name = "rcreatetime" ->
            CreateTimeSetOrder_order(files, TRUE, meta.ctime, meta.createOk, ex)
      [] name = "alphabetic"  -> NameAlphabeticSetOrder_order(files, FALSE)
      [] name = "ralphabetic" -> NameAlphabeticSetOrder_order(files, TRUE)
      [] name = "symlink"     -> SymlinkSetOrder_order(files, meta.symlinks, ex)
      [] name = "as_is"    -> NoopSetOrder_order(files)

(***************************************************************************)
(* SpecOrder: orderings applied to one set (main.rs:120-124, and the       *)
(* test common_tests.rs:146-151).  The set, the file system and the        *)
(* platform are drawn when the run starts.                                 *)
(***************************************************************************)
MaxOrders == 2    \* bound: order calls on one set

\* Vec<HashedFile> of at most n files.
RECURSIVE SetsUpTo(_)
SetsUpTo(n) ==
    IF n = 0 THEN {<<>>}
    ELSE LET shorter == SetsUpTo(n - 1)
         IN shorter \cup
            {Append(s, HashedFile(SomeTime(FileMTime(f)), f)) :
                s \in {t \in shorter : Len(t) = n - 1}, f \in OrdFiles}

OrderInit ==
    /\ GroupIdle
    /\ RunIdle
    /\ MachineIdle
    /\ InputIdle
    /\ exists \in {Files \ gone : gone \in SUBSET OrdFiles}
    /\ mtime \in MTimeTables
    /\ hasModTime \in BOOLEAN
    /\ ctime = [f \in Files |-> FileCTime(f)]
    /\ hasCreateTime = TRUE
    /\ symlinks = {}
    /\ ordFiles \in SetsUpTo(MaxSetLen)
    /\ ordIn = <<>>
    /\ ordLast = NoOrder
    /\ nOrders = 0
    /\ declared = <<>>
    /\ stack = <<>>
    /\ stackPc = "none"
    /\ ordOnce = <<>>

Order(name) ==
    /\ nOrders < MaxOrders
    /\ LET r == SetOrder_order(name, ordFiles, Meta, exists)
       IN /\ ordFiles' = r.files
          /\ ordLast' = [kind |-> IF name = "as_is" THEN "as_is" ELSE "modtime",
                         reverse |-> (name = "rmodtime"), ret |-> r.ret]
    /\ ordIn' = ordFiles
    /\ nOrders' = nOrders + 1
    /\ UNCHANGED <<exists, mtime, hasModTime, ctime, hasCreateTime, symlinks,
                   declared, stack, stackPc, ordOnce>>

OrderNext ==
    /\ \E name \in OrderNames : Order(name)
    /\ UNCHANGED <<groupVars, runVars, machineVars, inputVars>>

SpecOrder == OrderInit /\ [][OrderNext]_vars

(***************************************************************************)
(* Properties of the orderings.                                            *)
(***************************************************************************)
\* The positions of the input whose file's metadata could be read.
OrdKept == {i \in 1..Len(ordIn) : ordIn[i].file_path \in exists}

\* Input position j comes before input position i in the ordered set:
\* by modification time, and by input position when the times are equal.
OrdBefore(j, i) ==
    LET tj == mtime[ordIn[j].file_path]
        ti == mtime[ordIn[i].file_path]
    IN \/ (IF ordLast.reverse THEN tj > ti ELSE tj < ti)
       \/ (tj = ti /\ j < i)

OrdRank(i) == 1 + Cardinality({j \in OrdKept : OrdBefore(j, i)})

\* C10: when a modification-time ordering returns, the set holds exactly
\* the input files whose metadata could be read, each once per occurrence
\* in the input, in non-decreasing modification time (non-increasing when
\* reversed), files of equal time in input order.
C10_ModTimeOrderIsStableSortOfReadable ==
    (nOrders > 0 /\ ordLast.kind = "modtime" /\ ordLast.ret = "Ok") =>
        /\ Len(ordFiles) = Cardinality(OrdKept)
        /\ \A i \in OrdKept : ordFiles[OrdRank(i)] = ordIn[i]
        /\ \A k \in 1..(Len(ordFiles) - 1) :
              IF ordLast.reverse
              THEN mtime[ordFiles[k].file_path] >= mtime[ordFiles[k + 1].file_path]
              ELSE mtime[ordFiles[k].file_path] <= mtime[ordFiles[k + 1].file_path]

\* A reversed ordering dropped a missing file and exchanged the other two.
C10_Witness ==
    /\ nOrders > 0
    /\ ordLast.ret = "Ok" /\ ordLast.kind = "modtime" /\ ordLast.reverse
    /\ Len(ordIn) = 3 /\ Len(ordFiles) = 2
    /\ \E i \in 1..3 : ordIn[i].file_path \notin exists
    /\ \E i \in 1..3, j \in 1..3 :
          /\ i < j
          /\ ordFiles = <<ordIn[j], ordIn[i]>>
          /\ ordIn[i].file_path # ordIn[j].file_path

(***************************************************************************)
(* SpecGroup: the grouping stage, main.rs:104-114.                         *)
(***************************************************************************)
GroupInit ==
    /\ OrderIdle
    /\ RunIdle
    /\ MachineIdle
    /\ InputIdle
    /\ exists = Files
    /\ target = [h \in 0..(HashSpace - 1) |-> <<>>]
    /\ refiners \in RefinerChains
    /\ placeCall = NoCall
    /\ nCalls = 0
    /\ nVanish = 0
    /\ chainCall = NoChainCall

(***************************************************************************)
(* One iteration of main.rs:107-114: the next path of the channel is       *)
(* placed.  The sources may send any file, also one sent before.  The      *)
(* inputs are what the file system answers during the call: whether the    *)
(* platform has modification times, whether the file is modified while it  *)
(* is hashed, and whether the file disappears during the call (goneAt = 1: *)
(* after hashing, 2: after the hash components, 0: not at all).            *)
(***************************************************************************)
Place(f, hasTime, modified, goneAt) ==
    /\ nCalls < MaxCalls
    /\ LET before == IF hasTime /\ f \in exists THEN SomeTime(FileMTime(f)) ELSE NoTime
           after  == IF hasTime /\ f \in exists
                     THEN SomeTime(FileMTime(f) + (IF modified THEN 1 ELSE 0)) ELSE NoTime
           hashed == hash_file(f \in exists, FileContent(f), before, after)
           exComp == IF goneAt = 1 THEN exists \ {f} ELSE exists
           exCheck == IF goneAt \in {1, 2} THEN exists \ {f} ELSE exists
           r == place_into_file_set(target, f, hashed, refiners, exComp, exCheck)
       IN /\ target' = r.target
          /\ placeCall' = [file |-> f, before |-> before, after |-> after,
                           err |-> hashed.err, ret |-> r.ret]
          /\ exists' = IF hashed.ok THEN exCheck ELSE exists
    /\ nCalls' = nCalls + 1
    /\ UNCHANGED <<refiners, nVanish, chainCall>>

\* The environment removes a file between two calls.
Vanish(f) ==
    /\ nVanish < MaxVanish
    /\ f \in exists
    /\ exists' = exists \ {f}
    /\ nVanish' = nVanish + 1
    /\ UNCHANGED <<target, refiners, placeCall, nCalls, chainCall>>

GroupNext ==
    /\ \/ \E f \in Files, hasTime \in BOOLEAN, modified \in BOOLEAN, goneAt \in 0..2 :
             Place(f, hasTime, modified, goneAt)
       \/ \E f \in Files : Vanish(f)
    /\ UNCHANGED <<orderVars, runVars, machineVars, inputVars>>

SpecGroup == GroupInit /\ [][GroupNext]_vars

(***************************************************************************)
(* Properties of the grouping stage.                                       *)
(***************************************************************************)
\* What the refiner chain answers for two files that can both be read:
\* true when every refiner of the chain finds them equal.
ChainEqual(a, b) ==
    \A k \in 1..Len(refiners) :
        refiner_check_equal(refiners[k], a, b, {a, b}).eq

\* The digest under which a file is filed: its content hash extended by
\* the hash components of the configured refiners.
CompositeDigest(f) ==
    Digest128(hash_components(refiners, f,
                              hash_source(HasherDefault, FileContent(f)), {f}).hash)

IsMember(f) ==
    \E h \in DOMAIN target : \E i \in 1..Len(target[h]) :
        \E k \in 1..Len(target[h][i][2]) : target[h][i][2][k].file_path = f

\* C1 (P1, set transitivity): in every set of the grouping map of size >= 2
\* the refiner chain finds the first element equal to every other element.
C1_FirstEqualsEveryMember ==
    \A h \in DOMAIN target : \A i \in 1..Len(target[h]) :
        LET S == target[h][i][2]
        IN \A k \in 2..Len(S) : ChainEqual(S[1].file_path, S[k].file_path)

\* C2 (P3, modification detection): a call of place_into_file_set whose
\* file has another modification time after hashing than before ends with
\* hash_file's FileChanged, returns AlreadyReportedError and leaves the
\* grouping map as it was.
C2_ModifiedFileNotAdmitted ==
    [][(nCalls' = nCalls + 1 /\ placeCall'.before # placeCall'.after)
         => /\ placeCall'.err = "FileChanged"
            /\ placeCall'.ret = "AlreadyReportedError"
            /\ target' = target]_vars

\* A file found modified was rejected while the map already held a set.
C2_Witness ==
    /\ placeCall.before # placeCall.after
    /\ placeCall.err = "FileChanged"
    /\ \E f \in Files : IsMember(f)

\* C3 (P2, no cross-bucket equality): the members of one set all have the
\* same composite digest, which is the key of the set's bucket.
C3_OneCompositeDigestPerSet ==
    \A h \in DOMAIN target : \A i \in 1..Len(target[h]) :
        LET S == target[h][i][2]
        IN \A k \in 1..Len(S) : CompositeDigest(S[k].file_path) = h

\* A set of two files exists beside a file with another composite digest.
C3_Witness ==
    /\ \E h \in DOMAIN target : \E i \in 1..Len(target[h]) : Len(target[h][i][2]) >= 2
    /\ \E f \in Files, g \in Files :
          /\ IsMember(f) /\ IsMember(g)
          /\ CompositeDigest(f) # CompositeDigest(g)

(***************************************************************************)
(* File actions (file_action.rs).  remove_file and hard_link fail when     *)
(* the file they need is gone, and may fail for any other reason the       *)
(* operating system has (rmOk, linkOk).  Each returns its result and the   *)
(* files that exist afterwards.                                            *)
(***************************************************************************)
\* The actions of parse_cli/mod.rs:523-540 modelled so far.
FileActions == {"delete", "rehardlink"}

\* file_action.rs:65-70
DeleteFileAction_consume(path, rmOk, ex) ==
    IF ~(rmOk /\ path \in ex)
    THEN [result |-> "Recoverable", exists |-> ex]
    ELSE [result |-> "Ok", exists |-> ex \ {path}]

\* A hard link that fails after the removal is reported as Recoverable.
ReplaceWithHardLinkFileAction_consume_LinkRecoverable(path, original, rmOk, linkOk, ex) ==
    IF ~(rmOk /\ path \in ex)
    THEN [result |-> "Recoverable", exists |-> ex]
    ELSE LET removed == ex \ {path}
         IN IF ~(linkOk /\ original \in removed)
            THEN [result |-> "Recoverable", exists |-> removed]
            ELSE [result |-> "Ok", exists |-> removed \cup {path}]

\* file_action.rs:85-96
ReplaceWithHardLinkFileAction_consume(path, original, rmOk, linkOk, ex) ==
    IF ~(rmOk /\ path \in ex)
    THEN [result |-> "Recoverable", exists |-> ex]
    ELSE LET removed == ex \ {path}
         IN IF ~(linkOk /\ original \in removed)
            THEN [result |-> "Fatal", exists |-> removed]
            ELSE [result |-> "Ok", exists |-> removed \cup {path}]

FileConsumeAction_consume(action, path, original, rmOk, linkOk, ex) ==
    CASE action = "delete"     -> DeleteFileAction_consume(path, rmOk, ex)
      [] action = "rehardlink" ->
            ReplaceWithHardLinkFileAction_consume(path, original, rmOk, linkOk, ex)

(***************************************************************************)
(* The unconditional and the interactive consumer (set_consumer.rs).       *)
(***************************************************************************)
Consumers == {"UnconditionalAction", "InteractiveEachChoice"}

find_original_KeepFirst(set, ex) == set

\* set_consumer.rs:124-133 and 176-185: drop leading members that do not
\* exist; what is left starts with the original, or is empty.
RECURSIVE find_original(_, _)
find_original(set, ex) ==
    IF set = <<>> THEN <<>>
    ELSE IF set[1].file_path \in ex THEN set
    ELSE find_original(Tail(set), ex)

aborts_OnAnyError(result) == result # "Ok"

\* set_consumer.rs:140-149 and 228-237: only a Fatal result makes
\* consume_set return the error.
aborts(result) == result = "Fatal"

\* Lines the reader can deliver; the empty one is the closed input.
AnswerLines ==
    { <<"y", "\n">>, <<" ", "Y", "e", "S", "\n">>, <<"n">>, <<"N", "O", "\n">>,
      <<"y", "e", "\n">>, <<"\n">>, <<>> }

Whitespace == {" ", "\n"}

RECURSIVE trim_start(_)
trim_start(s) ==
    IF s # <<>> /\ Head(s) \in Whitespace THEN trim_start(Tail(s)) ELSE s

RECURSIVE trim_end(_)
trim_end(s) ==
    IF s # <<>> /\ s[Len(s)] \in Whitespace
    THEN trim_end(SubSeq(s, 1, Len(s) - 1))
    ELSE s

\* str::trim
trim(s) == trim_end(trim_start(s))

to_ascii_lowercase(c) ==
    CASE c = "Y" -> "y" [] c = "E" -> "e" [] c = "S" -> "s"
      [] c = "N" -> "n" [] c = "O" -> "o" [] OTHER -> c

\* str::eq_ignore_ascii_case
eq_ignore_ascii_case(a, b) ==
    /\ Len(a) = Len(b)
    /\ \A i \in 1..Len(a) : to_ascii_lowercase(a[i]) = to_ascii_lowercase(b[i])

execute_choice_Prefix(choice_buf) ==
    LET choice == trim(choice_buf)
    IN IF choice # <<>> /\ eq_ignore_ascii_case(<<choice[1]>>, <<"y">>) THEN "yes"
       ELSE IF choice # <<>> /\ eq_ignore_ascii_case(<<choice[1]>>, <<"n">>) THEN "no"
       ELSE "unrecognised"

\* set_consumer.rs:212-224
execute_choice(choice_buf) ==
    LET choice == trim(choice_buf)
    IN IF eq_ignore_ascii_case(choice, <<"y">>)
          \/ eq_ignore_ascii_case(choice, <<"y", "e", "s">>)
       THEN "yes"
       ELSE IF eq_ignore_ascii_case(choice, <<"n">>)
               \/ eq_ignore_ascii_case(choice, <<"n", "o">>)
       THEN "no"
       ELSE "unrecognised"

(***************************************************************************)
(* SpecRun: main's loop over the sets of the map (main.rs:116-132) with    *)
(* one of the two consumers.  A consume_set call advances one duplicate    *)
(* at a time; the interactive consumer also waits for each answer.         *)
(* runPc is "ready" between two sets, "dups" before a duplicate, "read"    *)
(* while an answer is awaited and "done" when the loop is left.            *)
(***************************************************************************)
OrderStacks == {<<"modtime">>, <<"as_is">>}

\* main.rs:121: whether one of the orderings main applies returns
\* Err(AlreadyReportedError), which ends the loop over the orderings.
RECURSIVE OrdersFail(_, _, _, _)
OrdersFail(order_set, files, meta, ex) ==
    IF order_set = <<>> THEN FALSE
    ELSE LET r == SetOrder_order(Head(order_set), files, meta, ex)
         IN IF r.ret # "Ok" THEN TRUE
            ELSE OrdersFail(Tail(order_set), r.files, meta, ex)

\* main.rs:120-124
RECURSIVE ApplyOrders(_, _, _, _)
ApplyOrders(order_set, files, meta, ex) ==
    IF order_set = <<>> THEN files
    ELSE LET r == SetOrder_order(Head(order_set), files, meta, ex)
         IN IF r.ret # "Ok" THEN r.files
            ELSE ApplyOrders(Tail(order_set), r.files, meta, ex)

after_consume_Continue(ret) == "ready"

\* main.rs:129-131
after_consume(ret) == IF ret = "AlreadyReportedError" THEN "done" ELSE "ready"

RunInit ==
    /\ GroupIdle
    /\ OrderIdle
    /\ MachineIdle
    /\ InputIdle
    /\ exists \in {Files \ gone : gone \in SUBSET OrdFiles}
    /\ orderSet \in OrderStacks
    /\ consumer \in Consumers
    /\ fileAction \in FileActions
    /\ runPc = "ready"
    /\ handed = <<>>
    /\ curSet = <<>>
    /\ dupIdx = 0
    /\ lastEvent = NoEvent
    /\ consumeRet = "none"
    /\ fatalSeen = FALSE
    /\ startAlive = 0
    /\ recovered = FALSE
    /\ orderErr = FALSE
    /\ takenLen = 0

\* consume_set returns ret to main.
Return(ret) ==
    /\ consumeRet' = ret
    /\ runPc' = after_consume(ret)

\* The for loop of consume_set moves past the duplicate at dupIdx.
Advance ==
    /\ dupIdx' = dupIdx + 1
    /\ IF dupIdx + 1 > Len(curSet)
       THEN Return("Ok")
       ELSE runPc' = "dups" /\ consumeRet' = consumeRet

Event(kind, line, path, original, result) ==
    [kind |-> kind, line |-> line, path |-> path,
     original |-> original, result |-> result]

\* main's loop without the second length check (main.rs:125-127).
TakeSet_NoRecheck(set) ==
    /\ runPc = "ready"
    /\ lastEvent' = NoEvent
    /\ recovered' = FALSE
    /\ orderErr' = (orderErr \/ (Len(set) > 1 /\ OrdersFail(orderSet, set, Meta, exists)))
    /\ takenLen' = Len(set)
    /\ IF Len(set) <= 1
       THEN /\ handed' = <<>>
            /\ curSet' = <<>>
            /\ dupIdx' = 0
            /\ startAlive' = 0
            /\ consumeRet' = "none"
            /\ runPc' = "ready"
       ELSE LET ordered == ApplyOrders(orderSet, set, Meta, exists)
                set_ == find_original(ordered, exists)
            IN /\ handed' = ordered
               /\ curSet' = set_
               /\ startAlive' = Cardinality({i \in 1..Len(ordered) :
                                     ordered[i].file_path \in exists})
               /\ IF Len(set_) <= 1
                  THEN dupIdx' = 0 /\ Return("Ok")
                  ELSE dupIdx' = 2 /\ consumeRet' = "running" /\ runPc' = "dups"
    /\ UNCHANGED <<exists, orderSet, consumer, fileAction, fatalSeen>>

\* main.rs:116-129 with set_consumer.rs:124-133 / 176-185: main takes the
\* next set, skips or orders it and hands it to the consumer, which finds
\* the original.
TakeSet(set) ==
    /\ runPc = "ready"
    /\ lastEvent' = NoEvent
    /\ recovered' = FALSE
    /\ orderErr' = (orderErr \/ (Len(set) > 1 /\ OrdersFail(orderSet, set, Meta, exists)))
    /\ takenLen' = Len(set)
    /\ LET ordered == IF Len(set) <= 1 THEN set
                      ELSE ApplyOrders(orderSet, set, Meta, exists)
       IN IF Len(ordered) <= 1
          THEN /\ handed' = <<>>
               /\ curSet' = <<>>
               /\ dupIdx' = 0
               /\ startAlive' = 0
               /\ consumeRet' = "none"
               /\ runPc' = "ready"
          ELSE LET set_ == find_original(ordered, exists)
               IN /\ handed' = ordered
                  /\ curSet' = set_
                  /\ startAlive' = Cardinality({i \in 1..Len(ordered) :
                                        ordered[i].file_path \in exists})
                  /\ IF Len(set_) <= 1
                     THEN dupIdx' = 0 /\ Return("Ok")
                     ELSE dupIdx' = 2 /\ consumeRet' = "running" /\ runPc' = "dups"
    /\ UNCHANGED <<exists, orderSet, consumer, fileAction, fatalSeen>>

\* set_consumer.rs:140-149 / 227-238: the action is called for the
\* duplicate at dupIdx; rmOk and linkOk say whether the operating system
\* lets remove_file and hard_link succeed.
Invoke(line) ==
    \E rmOk \in BOOLEAN, linkOk \in BOOLEAN :
      LET path == curSet[dupIdx].file_path
          original == curSet[1].file_path
          r == FileConsumeAction_consume(fileAction, path, original, rmOk, linkOk, exists)
      IN /\ lastEvent' = Event("invoked", line, path, original, r.result)
         /\ exists' = r.exists
         /\ fatalSeen' = (fatalSeen \/ r.result = "Fatal")
         /\ recovered' = (recovered \/ r.result = "Recoverable")
         /\ IF aborts(r.result)
            THEN dupIdx' = dupIdx /\ Return("AlreadyReportedError")
            ELSE Advance

\* A step of consume_set that calls no action and ends as `how` says.
NoAction(kind, line, how) ==
    /\ lastEvent' = Event(kind, line, curSet[dupIdx].file_path, "none", "none")
    /\ UNCHANGED <<exists, fatalSeen, recovered>>
    /\ CASE how = "advance" -> Advance
         [] how = "error"   -> dupIdx' = dupIdx /\ Return("AlreadyReportedError")
         [] how = "read"    -> dupIdx' = dupIdx /\ runPc' = "read"
                                 /\ consumeRet' = consumeRet

\* set_consumer.rs:134-150, one turn of UnconditionalAction's for loop
UnconditionalDup ==
    /\ runPc = "dups"
    /\ consumer = "UnconditionalAction"
    /\ IF curSet[dupIdx].file_path \notin exists
       THEN NoAction("missing", <<>>, "advance")
       ELSE Invoke(<<>>)
    /\ UNCHANGED <<orderSet, consumer, fileAction, handed, curSet, startAlive, orderErr,
                 takenLen>>

\* set_consumer.rs:186-198, InteractiveEachChoice's for loop up to the
\* prompt, which the writer takes or not
InteractivePrompt ==
    /\ runPc = "dups"
    /\ consumer = "InteractiveEachChoice"
    /\ IF curSet[dupIdx].file_path \notin exists
       THEN NoAction("missing", <<>>, "advance")
       ELSE \E writeOk \in BOOLEAN :
               IF ~writeOk THEN NoAction("ioerror", <<>>, "error")
               ELSE NoAction("prompted", <<>>, "read")
    /\ UNCHANGED <<orderSet, consumer, fileAction, handed, curSet, startAlive, orderErr,
                 takenLen>>

\* set_consumer.rs:199-238, one turn of the answer loop and what follows
\* it: ioOk says whether flush and read_remaining succeed, choice_buf is
\* the line read, writeOk whether the writer takes the complaint.
InteractiveRead(ioOk, choice_buf) ==
    /\ runPc = "read"
    /\ IF ~ioOk THEN NoAction("ioerror", <<>>, "error")
       ELSE IF choice_buf = <<>> THEN NoAction("closed", choice_buf, "error")
       ELSE LET execute_action == execute_choice(choice_buf)
            IN IF execute_action = "yes" THEN Invoke(choice_buf)
               ELSE IF execute_action = "no"
               THEN NoAction("declined", choice_buf, "advance")
               ELSE \E writeOk \in BOOLEAN :
                       NoAction("unrecognised", choice_buf,
                                IF writeOk THEN "read" ELSE "error")
    /\ UNCHANGED <<orderSet, consumer, fileAction, handed, curSet, startAlive, orderErr,
                 takenLen>>

\* main.rs:116, the map has no further set
RunEnd ==
    /\ runPc = "ready"
    /\ runPc' = "done"
    /\ UNCHANGED <<exists, orderSet, consumer, fileAction, handed, curSet, dupIdx,
                   lastEvent, consumeRet, fatalSeen, startAlive, recovered, orderErr,
                   takenLen>>

RunNext ==
    /\ \/ \E set \in SetsUpTo(MaxSetLen) : TakeSet(set)
       \/ UnconditionalDup
       \/ InteractivePrompt
       \/ \E ioOk \in BOOLEAN, choice_buf \in AnswerLines :
             InteractiveRead(ioOk, choice_buf)
       \/ RunEnd
    /\ UNCHANGED <<groupVars, orderVars, machineVars, inputVars>>

SpecRun == RunInit /\ [][RunNext]_vars

(***************************************************************************)
(* Properties of SpecRun.                                                  *)
(***************************************************************************)
\* The consumer is inside a consume_set call, about to handle a duplicate.
InCall == runPc \in {"dups", "read"}

\* C4: once a file action has returned Fatal, consume_set has returned the
\* error, main has left its loop, and that Fatal call is still the last
\* thing the consumer did: no further duplicate and no further set is
\* touched.
C4_FatalStopsEverything ==
    fatalSeen =>
        /\ runPc = "done"
        /\ consumeRet = "AlreadyReportedError"
        /\ lastEvent.kind = "invoked"
        /\ lastEvent.result = "Fatal"

\* A hard link could not be made for the first of two duplicates.
C4_Witness ==
    /\ fatalSeen
    /\ runPc = "done"
    /\ Len(curSet) = 3
    /\ dupIdx = 2
    /\ lastEvent.path # lastEvent.original

\* C5: a step in which the file action returns Recoverable does not end
\* the call with an error: the consumer moves on to the next duplicate, or,
\* after the last one, returns Ok and main stays in its loop.  A call in
\* which a Recoverable result occurred ends in an error only for another
\* reason.
C5_RecoverableNeverAborts ==
    [][(InCall /\ lastEvent'.kind = "invoked" /\ lastEvent'.result = "Recoverable") =>
          /\ recovered'
          /\ dupIdx' = dupIdx + 1
          /\ IF dupIdx < Len(curSet)
             THEN runPc' = "dups" /\ consumeRet' = "running"
             ELSE runPc' = "ready" /\ consumeRet' = "Ok"]_vars

\* After a Recoverable result for the first duplicate the second one was
\* handled, the call returned Ok and main is ready for the next set.
C5_Witness ==
    /\ recovered
    /\ Len(curSet) = 3
    /\ dupIdx = 4
    /\ lastEvent.kind = "invoked"
    /\ lastEvent.result = "Ok"
    /\ consumeRet = "Ok"
    /\ runPc = "ready"

\* C6: when a set is handed to a consumer, exactly its leading members
\* that do not exist are dropped and the first existing member becomes the
\* original; the action is only called with a duplicate that exists and
\* with that original; and when fewer than two members existed the action
\* is not called and the call does not fail.
C6_MissingMembersAreSkipped ==
    /\ [][(runPc = "ready" /\ runPc' # "done" /\ handed' # <<>>) =>
            LET k == Len(handed') - Len(curSet')
            IN /\ k >= 0
               /\ curSet' = SubSeq(handed', k + 1, Len(handed'))
               /\ \A i \in 1..k : handed'[i].file_path \notin exists
               /\ curSet' # <<>> => curSet'[1].file_path \in exists]_vars
    /\ [][(InCall /\ lastEvent'.kind = "invoked") =>
            /\ lastEvent'.path \in exists
            /\ lastEvent'.path = curSet[dupIdx].file_path
            /\ lastEvent'.original = curSet[1].file_path
            /\ \A i \in 1..(Len(handed) - Len(curSet)) :
                  handed[i].file_path # lastEvent'.original]_vars
    /\ [](startAlive < 2 =>
            /\ lastEvent.kind # "invoked"
            /\ consumeRet # "AlreadyReportedError"
            /\ ~InCall => consumeRet \in {"none", "Ok"})

\* The first member was missing, the second became the original and the
\* action was called for the third.
C6_Witness ==
    /\ Len(handed) = 3
    /\ Len(curSet) = 2
    /\ lastEvent.kind = "invoked"
    /\ lastEvent.original = handed[2].file_path
    /\ lastEvent.path = handed[3].file_path
    /\ handed[1].file_path \notin exists

\* The answers that spell y or yes, and n or no, whatever the case and
\* the surrounding white space.
YesLines == {<<"y", "\n">>, <<" ", "Y", "e", "S", "\n">>}
NoLines == {<<"n">>, <<"N", "O", "\n">>}

\* C7: for a set whose members all existed, each answer the interactive
\* consumer reads decides for the duplicate at hand: y or yes calls the
\* action on that duplicate with the first member of the set as original,
\* n or no calls nothing and moves on, anything else asks again for the
\* same duplicate; duplicates are taken in set order.
C7_InteractiveActsOnYesOnly ==
    /\ [][(runPc = "read" /\ startAlive = Len(handed)
           /\ lastEvent'.kind \in {"invoked", "declined", "unrecognised"}) =>
            /\ lastEvent'.kind = "invoked" <=> lastEvent'.line \in YesLines
            /\ lastEvent'.kind = "declined" <=> lastEvent'.line \in NoLines
            /\ lastEvent'.kind = "invoked" =>
                  /\ lastEvent'.path = handed[dupIdx].file_path
                  /\ lastEvent'.original = handed[1].file_path
                  /\ lastEvent'.result # "Fatal" => dupIdx' = dupIdx + 1
            /\ lastEvent'.kind = "declined" =>
                  /\ exists' = exists
                  /\ dupIdx' = dupIdx + 1
                  /\ consumeRet' # "AlreadyReportedError"
            /\ lastEvent'.kind = "unrecognised" =>
                  /\ exists' = exists
                  /\ dupIdx' = dupIdx
                  /\ consumeRet' # "AlreadyReportedError" => runPc' = "read"]_vars
    /\ [][dupIdx' >= dupIdx \/ runPc = "ready"]_vars
    /\ []((consumer = "InteractiveEachChoice" /\ lastEvent.kind = "invoked") =>
            lastEvent.line \in YesLines)

\* The second duplicate of a set of three was acted on after a " YeS ".
C7_Witness ==
    /\ consumer = "InteractiveEachChoice"
    /\ startAlive = 3
    /\ lastEvent.kind = "invoked"
    /\ lastEvent.line = <<" ", "Y", "e", "S", "\n">>
    /\ lastEvent.path = handed[3].file_path
    /\ lastEvent.original = handed[1].file_path
    /\ handed[3].file_path # handed[1].file_path

(***************************************************************************)
(* The machine-readable consumers (set_consumer.rs:260-353).  Paths and    *)
(* output are sequences of characters.                                     *)
(***************************************************************************)
LF == "\n"

\* std::fs::canonicalize of an existing file; file d is named ",d".
CanonPath(f) == IF f = "d" THEN <<"/", ",", "d">> ELSE <<"/", f>>

\* util.rs:82-90
path_contains_comma(path) == \E i \in 1..Len(path) : path[i] = ","

\* set_consumer.rs:336-353: drop leading members that cannot be
\* canonicalized or whose canonical path holds a comma.
RECURSIVE find_nocomma_original(_, _)
find_nocomma_original(set, ex) ==
    IF set = <<>> THEN <<>>
    ELSE IF set[1].file_path \notin ex
    THEN find_nocomma_original(Tail(set), ex)
    ELSE IF path_contains_comma(CanonPath(set[1].file_path))
    THEN find_nocomma_original(Tail(set), ex)
    ELSE set

\* One write! or writeln! call: the bytes, and whether it is a record.
WriteOp(isRecord, bytes) == [record |-> isRecord, bytes |-> bytes]

RECURSIVE MachineReadableEach_loop_EagerNewline(_, _, _, _, _)
MachineReadableEach_loop_EagerNewline(set, i, orig_path, wb, ex) ==
    IF i > Len(set) THEN <<>>
    ELSE LET f == set[i].file_path
             rest == MachineReadableEach_loop_EagerNewline(set, i + 1, orig_path, TRUE, ex)
             nl == IF wb THEN <<WriteOp(FALSE, <<LF>>)>> ELSE <<>>
         IN IF f \notin ex \/ path_contains_comma(CanonPath(f))
            THEN nl \o MachineReadableEach_loop_EagerNewline(set, i + 1, orig_path, wb, ex)
            ELSE nl \o <<WriteOp(TRUE, orig_path \o <<",">> \o CanonPath(f))>> \o rest

\* set_consumer.rs:263-284: the writes of the for loop from member i on,
\* wb being written_before.
RECURSIVE MachineReadableEach_loop(_, _, _, _, _)
MachineReadableEach_loop(set, i, orig_path, wb, ex) ==
    IF i > Len(set) THEN <<>>
    ELSE LET f == set[i].file_path
         IN IF f \notin ex
            THEN MachineReadableEach_loop(set, i + 1, orig_path, wb, ex)
            ELSE IF path_contains_comma(CanonPath(f))
            THEN MachineReadableEach_loop(set, i + 1, orig_path, wb, ex)
            ELSE (IF wb THEN <<WriteOp(FALSE, <<LF>>)>> ELSE <<>>)
                 \o <<WriteOp(TRUE, orig_path \o <<",">> \o CanonPath(f))>>
                 \o MachineReadableEach_loop(set, i + 1, orig_path, TRUE, ex)

\* set_consumer.rs:260-287 MachineReadableEach::consume_set, as the writes
\* it attempts in order
MachineReadableEach_consume_set(set, wb, ex) ==
    LET set_ == find_nocomma_original(set, ex)
    IN IF set_ = <<>> THEN <<>>
       ELSE MachineReadableEach_loop(set_, 2, CanonPath(set_[1].file_path), wb, ex)

\* set_consumer.rs:313-331: the writes of the for loop from member i on
RECURSIVE MachineReadableSet_loop(_, _, _, _, _)
MachineReadableSet_loop(set, i, orig_path, first, ex) ==
    IF i > Len(set) THEN <<>>
    ELSE LET f == set[i].file_path
         IN IF f \notin ex
            THEN MachineReadableSet_loop(set, i + 1, orig_path, first, ex)
            ELSE IF path_contains_comma(CanonPath(f))
            THEN MachineReadableSet_loop(set, i + 1, orig_path, first, ex)
            ELSE LET prev_path == IF first THEN orig_path ELSE <<>>
                 IN <<WriteOp(TRUE, prev_path \o <<",">> \o CanonPath(f))>>
                    \o MachineReadableSet_loop(set, i + 1, orig_path, FALSE, ex)

\* set_consumer.rs:305-334 MachineReadableSet::consume_set, as the writes
\* it attempts in order
MachineReadableSet_consume_set(set, wb, ex) ==
    LET set_ == find_nocomma_original(set, ex)
    IN IF set_ = <<>> THEN <<>>
       ELSE (IF wb THEN <<WriteOp(FALSE, <<LF>>)>> ELSE <<>>)
            \o MachineReadableSet_loop(set_, 2, CanonPath(set_[1].file_path), TRUE, ex)

\* The bytes of the first n writes.
RECURSIVE Written(_, _)
Written(ops, n) ==
    IF n = 0 THEN <<>> ELSE Written(ops, n - 1) \o ops[n].bytes

(***************************************************************************)
(* What the tests expect of the output (common_tests.rs:278-359): the      *)
(* usable members of a set are those that exist and whose canonical path   *)
(* holds no comma; the first is the original, the others its duplicates.   *)
(***************************************************************************)
UsablePaths(set, ex) ==
    LET Usable(hf) == hf.file_path \in ex
                      /\ ~path_contains_comma(CanonPath(hf.file_path))
        U == SelectSeq(set, Usable)
    IN [i \in 1..Len(U) |-> CanonPath(U[i].file_path)]

RECURSIVE JoinWith(_, _)
JoinWith(parts, sep) ==
    IF parts = <<>> THEN <<>>
    ELSE IF Len(parts) = 1 THEN parts[1]
    ELSE parts[1] \o <<sep>> \o JoinWith(Tail(parts), sep)

\* common_tests.rs:303: one record "orig,dup" per duplicate
ExpectedRecords(set, ex) ==
    LET U == UsablePaths(set, ex)
    IN [i \in 1..(Len(U) - 1) |-> U[1] \o <<",">> \o U[i + 1]]

\* common_tests.rs:344: one line "orig,dup,dup" for a set with duplicates,
\* and nothing for a set without (common_tests.rs:325-326)
ExpectedSetLine(set, ex) ==
    LET U == UsablePaths(set, ex)
    IN IF Len(U) < 2 THEN <<>> ELSE <<JoinWith(U, ",")>>

(***************************************************************************)
(* SpecMachine: consume_set calls on one machine-readable consumer, as     *)
(* main.rs:116-132 and the tests make them.  A write may fail; the call    *)
(* then returns the error and no further call is made.                     *)
(***************************************************************************)
MaxConsume == 2    \* bound: consume_set calls on the consumer

MachineKinds == {"pairwise", "setwise"}

\* Vec<HashedFile> of at most n distinct files.
RECURSIVE DistinctSetsUpTo(_)
DistinctSetsUpTo(n) ==
    IF n = 0 THEN {<<>>}
    ELSE LET shorter == DistinctSetsUpTo(n - 1)
             Fresh(t) == {f \in Files : \A k \in 1..Len(t) : t[k].file_path # f}
         IN shorter \cup
            UNION {{Append(t, HashedFile(SomeTime(FileMTime(f)), f)) : f \in Fresh(t)} :
                      t \in {u \in shorter : Len(u) = n - 1}}

MachineInit ==
    /\ GroupIdle
    /\ OrderIdle
    /\ RunIdle
    /\ InputIdle
    /\ exists \in SUBSET Files
    /\ mKind \in MachineKinds
    /\ mOut = <<>>
    /\ written_before = FALSE
    /\ mRet = "none"
    /\ mLines = <<>>
    /\ nConsume = 0

\* One consume_set call; failAt is the write that fails, 0 for none.
Consume(set) ==
    /\ nConsume < MaxConsume
    /\ mRet # "AlreadyReportedError"
    /\ nConsume' = nConsume + 1
    /\ LET ops == IF mKind = "pairwise"
                  THEN MachineReadableEach_consume_set(set, written_before, exists)
                  ELSE MachineReadableSet_consume_set(set, written_before, exists)
       IN \E failAt \in 0..Len(ops) :
            LET done == IF failAt = 0 THEN Len(ops) ELSE failAt - 1
            IN /\ mOut' = mOut \o Written(ops, done)
               /\ written_before' = (written_before \/ \E k \in 1..done : ops[k].record)
               /\ mRet' = IF failAt = 0 THEN "Ok" ELSE "AlreadyReportedError"
    /\ mLines' = mLines \o (IF mKind = "pairwise" THEN ExpectedRecords(set, exists)
                            ELSE ExpectedSetLine(set, exists))
    /\ UNCHANGED <<exists, mKind>>

MachineNext ==
    /\ \E set \in DistinctSetsUpTo(MaxSetLen) : Consume(set)
    /\ UNCHANGED <<groupVars, orderVars, runVars, inputVars>>

SpecMachine == MachineInit /\ [][MachineNext]_vars

(***************************************************************************)
(* Properties of SpecMachine.                                              *)
(***************************************************************************)
NoWriteError == mRet # "AlreadyReportedError"

\* C8: as long as no write failed, the pairwise output is the records
\* "orig,dup" of the usable duplicates of all sets handed so far, joined
\* by single line feeds: it does not begin or end with a line feed and has
\* no empty line.
C8_PairwiseOutputIsJoinedRecords ==
    (mKind = "pairwise" /\ NoWriteError) =>
        /\ mOut = JoinWith(mLines, LF)
        /\ mOut # <<>> => (mOut[1] # LF /\ mOut[Len(mOut)] # LF)
        /\ \A i \in 1..(Len(mOut) - 1) : ~(mOut[i] = LF /\ mOut[i + 1] = LF)

\* Two calls wrote three records while a file with a comma in its path
\* existed.
C8_Witness ==
    /\ mKind = "pairwise"
    /\ NoWriteError
    /\ nConsume = 2
    /\ "d" \in exists
    /\ mOut = <<"/", "a", ",", "/", "b", LF, "/", "a", ",", "/", "c", LF,
                "/", "c", ",", "/", "b">>

\* C9: as long as no write failed, the set-wise output is one line
\* "orig,dup,..." for each set handed so far that has writable duplicates,
\* the lines of successive sets separated by one line feed.
C9_SetwiseOutputIsJoinedLines ==
    (mKind = "setwise" /\ NoWriteError) => mOut = JoinWith(mLines, LF)

(***************************************************************************)
(* SpecStack: the ordering stack built from the command line               *)
(* (parse_cli/mod.rs:350-371) and applied to a set (main.rs:120-124),      *)
(* once and then once more with nothing changed in between.                *)
(***************************************************************************)
parse_set_order_AsDeclared(options) ==
    IF options = <<>> THEN <<"modtime">> ELSE options

\* parse_cli/mod.rs:350-371
parse_set_order(options) ==
    LET order == IF options = <<>> THEN <<"modtime">> ELSE options
    IN Reverse(order)

\* The orderings combined in stacks of two.
PairNames == {"modtime", "rcreatetime", "alphabetic", "symlink"}

\* What the user may give as setorder options.
DeclaredStacks ==
    {<<>>} \cup {<<n>> : n \in AllOrderNames}
           \cup {<<n1, n2>> : n1 \in PairNames, n2 \in PairNames}

\* File systems and platforms the stack may meet.
MetaScenarios ==
    { [mtime |-> [f \in Files |-> FileMTime(f)], modOk |-> TRUE,
       ctime |-> [f \in Files |-> FileCTime(f)], createOk |-> TRUE, symlinks |-> {}],
      [mtime |-> [f \in Files |-> 1], modOk |-> TRUE,
       ctime |-> [f \in Files |-> IF f = "a" THEN 2 ELSE 1], createOk |-> TRUE,
       symlinks |-> {"b"}],
      [mtime |-> [f \in Files |-> FileMTime(f)], modOk |-> TRUE,
       ctime |-> [f \in Files |-> FileCTime(f)], createOk |-> FALSE, symlinks |-> {"a"}],
      [mtime |-> [f \in Files |-> FileMTime(f)], modOk |-> FALSE,
       ctime |-> [f \in Files |-> FileCTime(f)], createOk |-> TRUE, symlinks |-> {}] }

StackInit ==
    /\ GroupIdle
    /\ RunIdle
    /\ MachineIdle
    /\ InputIdle
    /\ exists \in {Files \ gone : gone \in SUBSET OrdFiles}
    /\ \E m \in MetaScenarios :
          /\ mtime = m.mtime
          /\ hasModTime = m.modOk
          /\ ctime = m.ctime
          /\ hasCreateTime = m.createOk
          /\ symlinks = m.symlinks
    /\ declared \in DeclaredStacks
    /\ stack = parse_set_order(declared)
    /\ ordIn \in SetsUpTo(MaxSetLen)
    /\ ordFiles = ordIn
    /\ ordOnce = <<>>
    /\ stackPc = "none"
    /\ ordLast = NoOrder
    /\ nOrders = 0

\* main.rs:120-124 on a set for the first time
ApplyOnce ==
    /\ stackPc = "none"
    /\ stackPc' = "once"
    /\ ordFiles' = ApplyOrders(stack, ordFiles, Meta, exists)
    /\ ordOnce' = ordFiles'
    /\ UNCHANGED <<exists, mtime, hasModTime, ctime, hasCreateTime, symlinks,
                   ordIn, ordLast, nOrders, declared, stack>>

\* main.rs:120-124 on the set it has ordered before
ApplyAgain ==
    /\ stackPc = "once"
    /\ stackPc' = "twice"
    /\ ordFiles' = ApplyOrders(stack, ordFiles, Meta, exists)
    /\ UNCHANGED <<exists, mtime, hasModTime, ctime, hasCreateTime, symlinks,
                   ordIn, ordOnce, ordLast, nOrders, declared, stack>>

StackNext ==
    /\ ApplyOnce \/ ApplyAgain
    /\ UNCHANGED <<groupVars, runVars, machineVars, inputVars>>

SpecStack == StackInit /\ [][StackNext]_vars

(***************************************************************************)
(* Properties of SpecStack.                                                *)
(***************************************************************************)
\* C11: with the stack and the metadata unchanged, applying the stack to
\* its own result gives that result again.
C11_OrderingTwiceIsOrderingOnce ==
    stackPc = "twice" => ordFiles = ordOnce

\* A reversed ordering rearranged a set that holds two different files of
\* equal modification time, and was applied again.
C11_Witness ==
    /\ stackPc = "twice"
    /\ stack = <<"rmodtime">>
    /\ ordOnce # ordIn
    /\ \E i \in 1..Len(ordOnce), j \in 1..Len(ordOnce) :
          /\ ordOnce[i].file_path # ordOnce[j].file_path
          /\ mtime[ordOnce[i].file_path] = mtime[ordOnce[j].file_path]

\* The orderings in decreasing importance: what the user declared, or the
\* ascending modification time when nothing was declared.
Importance == IF declared = <<>> THEN <<"modtime">> ELSE declared

ReadsMetadata(name) == name \notin {"alphabetic", "ralphabetic", "as_is"}

\* Some ordering of the stack needs a time the platform does not give.
StackFails ==
    \E k \in 1..Len(Importance) :
        \/ Importance[k] \in {"modtime", "rmodtime"} /\ ~hasModTime
        \/ Importance[k] \in {"createtime", "rcreatetime"} /\ ~hasCreateTime

\* The value an ordering sorts file f by, ascending.
SortKey(name, f) ==
    CASE name = "modtime"     -> mtime[f]
      [] name = "rmodtime"    -> 0 - mtime[f]
      [] name = "createtime"  -> ctime[f]
      [] name = "rcreatetime" -> 0 - ctime[f]
      [] name = "alphabetic"  -> NameKey(f)
      [] name = "ralphabetic" -> 0 - NameKey(f)
      [] name = "symlink"     -> IF f \in symlinks THEN 1 ELSE 0
      [] name = "as_is"       -> 0

\* Input position j comes before input position i: by the first ordering
\* of names that tells them apart, and by input position when none does.
RECURSIVE StackBefore(_, _, _)
StackBefore(j, i, names) ==
    IF names = <<>> THEN j < i
    ELSE LET kj == SortKey(Head(names), ordIn[j].file_path)
             ki == SortKey(Head(names), ordIn[i].file_path)
         IN kj < ki \/ (kj = ki /\ StackBefore(j, i, Tail(names)))

\* The input positions the stack keeps: all of them, or the files whose
\* metadata can be read when some ordering reads metadata.
StackKept ==
    IF \E k \in 1..Len(Importance) : ReadsMetadata(Importance[k])
    THEN {i \in 1..Len(ordIn) : ordIn[i].file_path \in exists}
    ELSE 1..Len(ordIn)

StackRank(i) == 1 + Cardinality({j \in StackKept : StackBefore(j, i, Importance)})

\* C13: the stack is the declared orderings from last to first, the
\* ascending modification time when none is declared; applied to a set it
\* leaves the set sorted by the first declared ordering, files equal under
\* it by the second, and files equal under all in input order.
C13_StackSortsByImportance ==
    /\ stack = Reverse(Importance)
    /\ (stackPc # "none" /\ ~StackFails) =>
          /\ Len(ordOnce) = Cardinality(StackKept)
          /\ \A i \in StackKept : ordOnce[StackRank(i)] = ordIn[i]

\* Two orderings were declared: the newest file came first, and the two
\* files of equal creation time, given as b, a, came out as a, b.
C13_Witness ==
    /\ stackPc = "once"
    /\ declared = <<"rcreatetime", "alphabetic">>
    /\ hasCreateTime
    /\ [k \in 1..Len(ordIn) |-> ordIn[k].file_path] = <<"b", "a", "c">>
    /\ [k \in 1..Len(ordOnce) |-> ordOnce[k].file_path] = <<"c", "a", "b">>

(***************************************************************************)
(* Arrival order and final sequence, under SpecGroup: a set of the map     *)
(* holds its files in the order they arrived (main.rs:249), and main       *)
(* orders it with the stack (main.rs:120-124), here the default one.       *)
(***************************************************************************)
FinalSequence(set) == ApplyOrders(parse_set_order(<<>>), set, Meta, exists)

\* The same files as they would lie in the set had they arrived in the
\* order of their names.
ArrivedByName(set) == NameAlphabeticSetOrder_order(set, FALSE).files

\* C12: the final sequence of every set of two or more files is the one
\* the same files give when they arrive in another order (here: in the
\* order of their names).
C12_FinalSequenceIgnoresArrivalOrder ==
    \A h \in DOMAIN target : \A i \in 1..Len(target[h]) :
        LET set == target[h][i][2]
        IN Len(set) >= 2 => FinalSequence(set) = FinalSequence(ArrivedByName(set))

----------------------------------------------------------------------------
(***************************************************************************)
(* The file filters (file_filters.rs).  A file size is Metadata::len(), a  *)
(* path is the sequence of segments Path::iter() yields ("/" is the root   *)
(* directory, ".." the parent directory), a file name is a sequence of     *)
(* characters.                                                             *)
(***************************************************************************)
MaxFileSize == 4

FileSizes == 0..MaxFileSize

\* file_filters.rs:157
MinSizeFileFilter_AtLeast(min, len) == len >= min

MinSizeFileFilter_filter_file_metadata(min, len) == len > min

\* file_filters.rs:174
MaxSizeFileFilter_filter_file_metadata(max, len) == len < max

\* Option<&OsStr>
NoneOs == [some |-> FALSE]

SomeOs(v) == [some |-> TRUE, v |-> v]

FileNames ==
    { <<"a", ".", "e", "a">>, <<"a", ".", "e", "b">>, <<"a", ".", "e", "c">>,
      <<"a">>, <<".", "e", "a">>, <<"a", ".", "b", ".", "e", "a">>,
      <<"a", ".">> }

Extensions == { <<"e", "a">>, <<"e", "b">>, <<"e", "c">> }

\* position of the last '.' of name, 0 when it has none
LastDot(name) ==
    LET dots == {i \in 1..Len(name) : name[i] = "."}
    IN IF dots = {} THEN 0 ELSE CHOOSE i \in dots : \A j \in dots : j <= i

\* Path::extension() of a path whose file name is name
extension(name) ==
    LET d == LastDot(name)
    IN IF name = <<".", ".">> \/ d = 0 \/ d = 1
       THEN NoneOs
       ELSE SomeOs(SubSeq(name, d + 1, Len(name)))

ExtensionFilter_filter_file_name_SamePolarity(f, name) ==
    LET ext == extension(name)
        member == IF ext.some THEN ext.v \in f.extensions ELSE f.no_ext_in_set
    IN member # f.positive

\* file_filters.rs:192-198: map_or(no_ext_in_set, contains) ^ !positive
ExtensionFilter_filter_file_name(f, name) ==
    LET ext == extension(name)
        member == IF ext.some THEN ext.v \in f.extensions ELSE f.no_ext_in_set
    IN member # (~f.positive)

\* Path::parent(): None for the empty path and for the root
parent(path) ==
    IF path = <<>> \/ path[Len(path)] = "/"
    THEN NoneOs
    ELSE SomeOs(SubSeq(path, 1, Len(path) - 1))

\* Path::file_name(): the last segment when it is a normal name
file_name(path) ==
    IF path = <<>> \/ path[Len(path)] \in {"/", "..", "."}
    THEN NoneOs
    ELSE SomeOs(path[Len(path)])

(***************************************************************************)
(* PathFilterTree (file_filters.rs:141): nested maps from a segment to     *)
(* None (everything below is blocked) or Some(subtree).  The model holds   *)
(* the tree as the set of its keys, each written as the segment sequence   *)
(* leading to it from the root map: some holds the keys whose entry is     *)
(* Some(..), none those whose entry is None.                               *)
(***************************************************************************)
EmptyTree == [some |-> {}, none |-> {}]

IsPrefix(b, p) == Len(b) <= Len(p) /\ SubSeq(p, 1, Len(b)) = b

\* file_filters.rs:207-224: the walk over the parent's segments
RECURSIVE PathFilter_walk(_, _, _)
PathFilter_walk(tree, current, segs) ==
    IF segs = <<>>
    THEN [tree |-> tree, current |-> current, blocked |-> FALSE]
    ELSE LET key == Append(current, Head(segs))
         IN IF key \in tree.none
            THEN [tree |-> tree, current |-> current, blocked |-> TRUE]
            ELSE IF key \in tree.some
            THEN PathFilter_walk(tree, key, Tail(segs))
            ELSE PathFilter_walk([tree EXCEPT !.some = @ \cup {key}],
                                 key, Tail(segs))

\* HashMap::insert(file_name, None) below current: replaces the entry and
\* with it the subtree the entry held
InsertNone(tree, key) ==
    [some |-> {k \in tree.some : ~IsPrefix(key, k)},
     none |-> {k \in tree.none : ~IsPrefix(key, k)} \cup {key}]

\* file_filters.rs:204-229: the body of 'path_loop for one path
PathFilter_add(tree, path) ==
    LET par == parent(path)
        w == IF par.some
             THEN PathFilter_walk(tree, <<>>, par.v)
             ELSE [tree |-> tree, current |-> <<>>, blocked |-> FALSE]
        name == file_name(path)
    IN IF w.blocked THEN w.tree
       ELSE IF ~name.some THEN w.tree
       ELSE InsertNone(w.tree, Append(w.current, name.v))

RECURSIVE PathFilter_fold(_, _)
PathFilter_fold(tree, paths) ==
    IF paths = <<>> THEN tree
    ELSE PathFilter_fold(PathFilter_add(tree, Head(paths)), Tail(paths))

PathFilter_new(paths) == PathFilter_fold(EmptyTree, paths)

\* file_filters.rs:236-245
RECURSIVE PathFilter_lookup(_, _, _)
PathFilter_lookup(tree, current, segs) ==
    IF segs = <<>> THEN TRUE
    ELSE LET key == Append(current, Head(segs))
         IN IF key \in tree.some THEN PathFilter_lookup(tree, key, Tail(segs))
            ELSE IF key \in tree.none THEN FALSE
            ELSE TRUE

PathFilter_filter_file_name(tree, name_path) ==
    PathFilter_lookup(tree, <<>>, name_path)

MaxBlacklist == 2

BlackPaths ==
    { <<"/">>, <<"/", "s1">>, <<"/", "s1", "ss1">>, <<"/", "s2", "ss1">>,
      <<"s1", "..">> }

Blacklists ==
    UNION {[1..n -> BlackPaths] : n \in 1..MaxBlacklist}

NamePaths ==
    { <<"/", "s1", "ss1", "f1">>, <<"/", "s1", "f2">>,
      <<"/", "s1", "ss2", "f3">>, <<"/", "s2", "ss1", "f4">>,
      <<"/", "s2", "f5">>, <<"/", "f6">>, <<"s1", "f7">> }

FilterConfigs ==
    {[kind |-> "min", min |-> m] : m \in FileSizes}
    \cup {[kind |-> "max", max |-> m] : m \in FileSizes}
    \cup {[kind |-> "ext", extensions |-> e, no_ext_in_set |-> n,
           positive |-> p] :
            e \in SUBSET Extensions, n \in BOOLEAN, p \in BOOLEAN}
    \cup {[kind |-> "path", blacklist |-> bl, tree |-> PathFilter_new(bl)] :
            bl \in Blacklists}

FilterInit ==
    /\ GroupIdle
    /\ OrderIdle
    /\ RunIdle
    /\ MachineIdle
    /\ exists = Files
    /\ PathIdle
    /\ SinkIdle
    /\ WalkIdle
    /\ SizeIdle
    /\ filter \in FilterConfigs
    /\ filterCall = NoFilterCall

MinSizeFilter(len) ==
    /\ filter.kind = "min"
    /\ filterCall' = [kind |-> "min", len |-> len,
                      ret |-> MinSizeFileFilter_filter_file_metadata(filter.min, len)]
    /\ UNCHANGED filter

MaxSizeFilter(len) ==
    /\ filter.kind = "max"
    /\ filterCall' = [kind |-> "max", len |-> len,
                      ret |-> MaxSizeFileFilter_filter_file_metadata(filter.max, len)]
    /\ UNCHANGED filter

ExtFilter(name) ==
    /\ filter.kind = "ext"
    /\ filterCall' = [kind |-> "ext", name |-> name,
                      ret |-> ExtensionFilter_filter_file_name(filter, name)]
    /\ UNCHANGED filter

BlacklistFilter(path) ==
    /\ filter.kind = "path"
    /\ filterCall' = [kind |-> "path", path |-> path,
                      ret |-> PathFilter_filter_file_name(filter.tree, path)]
    /\ UNCHANGED filter

FilterNext ==
    /\ \/ \E len \in FileSizes : MinSizeFilter(len)
       \/ \E len \in FileSizes : MaxSizeFilter(len)
       \/ \E name \in FileNames : ExtFilter(name)
       \/ \E path \in NamePaths : BlacklistFilter(path)
    /\ UNCHANGED <<exists, groupVars, orderVars, runVars, machineVars, pathVars, sinkVars, walkVars, sizeVars>>

SpecFilter == FilterInit /\ [][FilterNext]_vars

\* C14: the minimum-size filter keeps a file exactly when its size is greater than the bound, the maximum-size filter exactly when its size is smaller than the bound.
C14_SizeFiltersAreStrict ==
    /\ filterCall.kind = "min" => (filterCall.ret <=> filterCall.len > filter.min)
    /\ filterCall.kind = "max" => (filterCall.ret <=> filterCall.len < filter.max)

\* min = 0 has dropped an empty file
C14_Witness ==
    /\ filter.kind = "min" /\ filter.min = 0
    /\ filterCall.kind = "min" /\ filterCall.len = 0 /\ filterCall.ret = FALSE

HasExtension(name) == \E i \in 2..Len(name) : name[i] = "."

ExtensionOf(name) ==
    LET i == CHOOSE k \in 2..Len(name) :
                 name[k] = "." /\ \A j \in (k + 1)..Len(name) : name[j] # "."
    IN SubSeq(name, i + 1, Len(name))

ListMember(f, name) ==
    IF HasExtension(name) THEN ExtensionOf(name) \in f.extensions
    ELSE f.no_ext_in_set

\* C15: the extension filter keeps a file exactly when its membership in the list (extension in the set, or the no-extension flag for a file without extension) equals the list's polarity.
C15_ExtensionFilterFollowsPolarity ==
    filterCall.kind = "ext" =>
        (filterCall.ret <=> (ListMember(filter, filterCall.name) <=> filter.positive))

\* an allow list that includes files without extension has kept the file "a"
\* and a deny list has dropped a listed extension
C15_Witness ==
    /\ filter.kind = "ext" /\ filter.positive /\ filter.no_ext_in_set
    /\ filter.extensions = {<<"e", "a">>, <<"e", "c">>}
    /\ filterCall.kind = "ext" /\ filterCall.name = <<"a">> /\ filterCall.ret

Blacklisted(bl, path) == \E i \in 1..Len(bl) : IsPrefix(bl[i], path)

Reorderings(bl) ==
    {[i \in 1..Len(bl) |-> bl[q[i]]] :
        q \in {r \in [1..Len(bl) -> 1..Len(bl)] :
                 \A i, j \in 1..Len(bl) : r[i] = r[j] => i = j}}

\* C16: the path filter rejects a path exactly when a blacklisted path is a segment-wise prefix of it, and every order of the blacklist builds the same filter.
C16_BlacklistRejectsPrefixed ==
    /\ filterCall.kind = "path" =>
          (~filterCall.ret <=> Blacklisted(filter.blacklist, filterCall.path))
    /\ filter.kind = "path" =>
          \A bl \in Reorderings(filter.blacklist) : PathFilter_new(bl) = filter.tree

----------------------------------------------------------------------------
(***************************************************************************)
(* LinkedPath (util.rs:37-80).  An OsString or a path is a sequence of     *)
(* characters; a LinkedPath is the sequence of the OsStrings of its nodes, *)
(* the node without ancestor first.                                        *)
(***************************************************************************)
RECURSIVE Pieces(_, _)
\* the pieces of path between its separators; acc is the piece being read
Pieces(path, acc) ==
    IF path = <<>> THEN <<acc>>
    ELSE IF Head(path) = "/" THEN <<acc>> \o Pieces(Tail(path), <<>>)
    ELSE Pieces(Tail(path), Append(acc, Head(path)))

\* Path::iter(): the root directory, then the pieces that are not empty;
\* a "." piece is a component only at the start of a relative path
iter(path) ==
    LET ps == Pieces(path, <<>>)
        has_root == path # <<>> /\ Head(path) = "/"
        keep == {i \in 1..Len(ps) :
                    /\ ps[i] # <<>>
                    /\ ps[i] = <<".">> => (i = 1 /\ ~has_root)}
        RECURSIVE Take(_)
        Take(i) == IF i > Len(ps) THEN <<>>
                   ELSE IF i \in keep THEN <<ps[i]>> \o Take(i + 1)
                   ELSE Take(i + 1)
    IN (IF has_root THEN << <<"/">> >> ELSE <<>>) \o Take(1)

\* PathBuf::push
push(buf, p) ==
    IF p # <<>> /\ Head(p) = "/" THEN p
    ELSE IF buf # <<>> /\ buf[Len(buf)] # "/" THEN buf \o <<"/">> \o p
    ELSE buf \o p

\* util.rs:76
root(dir) == <<dir>>

\* util.rs:42
new_child(par, segment) == Append(par, segment)

\* util.rs:69
from_path_buf(buf) == iter(buf)

RECURSIVE push_full_to_buf(_, _)
\* util.rs:51: the ancestors first, then the node's own string
push_full_to_buf(lp, buf) ==
    IF lp = <<>> THEN buf
    ELSE push(push_full_to_buf(SubSeq(lp, 1, Len(lp) - 1), buf), lp[Len(lp)])

\* util.rs:58
to_push_buf(lp) == push_full_to_buf(lp, <<>>)

RECURSIVE LinkedPath_eq(_, _)
\* util.rs:82: the nodes' strings, then the ancestors (Option's equality)
LinkedPath_eq(a, b) ==
    IF a = <<>> \/ b = <<>> THEN a = b
    ELSE /\ a[Len(a)] = b[Len(b)]
         /\ LinkedPath_eq(SubSeq(a, 1, Len(a) - 1), SubSeq(b, 1, Len(b) - 1))

RECURSIVE LinkedPath_hash(_)
\* derive(Hash), util.rs:37: what a LinkedPath feeds to the hasher: the
\* ancestor option (discriminant, then the ancestor), then the string
LinkedPath_hash(lp) ==
    (IF Len(lp) = 1 THEN <<"None">>
     ELSE <<"Some">> \o LinkedPath_hash(SubSeq(lp, 1, Len(lp) - 1)))
    \o <<lp[Len(lp)]>>

MaxDepth == 3

PathStrings ==
    { <<"/", "t", "/", "x">>, <<"t", "/", "x">>, <<"/", "t">>, <<"t">>,
      <<"x">>, <<".">>, <<".", "/", "x">>, <<"t", "/", "/", "x">> }

EntryNames == { <<"x">>, <<"t">> }

PathSlots == {"A", "B"}

PathInit ==
    /\ GroupIdle
    /\ OrderIdle
    /\ RunIdle
    /\ MachineIdle
    /\ FilterIdle
    /\ SinkIdle
    /\ WalkIdle
    /\ SizeIdle
    /\ exists = Files
    /\ lpA = NoPath
    /\ lpB = NoPath

SetSlot(slot, v) ==
    /\ lpA' = IF slot = "A" THEN v ELSE lpA
    /\ lpB' = IF slot = "B" THEN v ELSE lpB

Slot(slot) == IF slot = "A" THEN lpA ELSE lpB

Root(slot, dir) == SetSlot(slot, [how |-> "root", lp |-> root(dir)])

FromPathBuf(slot, buf) ==
    SetSlot(slot, [how |-> "from_path_buf", lp |-> from_path_buf(buf)])

NewChild(slot, segment) ==
    /\ Slot(slot).how # "none"
    /\ Len(Slot(slot).lp) < MaxDepth
    /\ SetSlot(slot, [how |-> "new_child",
                      lp |-> new_child(Slot(slot).lp, segment)])

PathNext ==
    /\ \E slot \in PathSlots :
          \/ \E dir \in PathStrings : Root(slot, dir)
          \/ \E buf \in PathStrings : FromPathBuf(slot, buf)
          \/ \E segment \in EntryNames : NewChild(slot, segment)
    /\ UNCHANGED <<exists, groupVars, orderVars, runVars, machineVars, filterVars, sinkVars, walkVars, sizeVars>>

SpecPath == PathInit /\ [][PathNext]_vars

\* C19: two LinkedPath values that represent the same path compare equal and hash equal, whichever constructors built them.
C19_SamePathSameValue ==
    (/\ lpA.how # "none"
     /\ lpB.how # "none"
     /\ to_push_buf(lpA.lp) = to_push_buf(lpB.lp))
    => /\ LinkedPath_eq(lpA.lp, lpB.lp)
       /\ LinkedPath_hash(lpA.lp) = LinkedPath_hash(lpB.lp)

----------------------------------------------------------------------------
(***************************************************************************)
(* DedupingInputSink (input_source.rs:45-64).  Every thread owns a clone   *)
(* of the sink; the clones share one DashSet and forward to clones of one  *)
(* downstream sink.  DashSet::insert is one atomic step, the forwarding    *)
(* put that follows it is another.                                         *)
(***************************************************************************)
Threads == {"t1", "t2"}

MaxPut == 2

SinkPaths ==
    { from_path_buf(<<"/", "t", "/", "x">>),
      new_child(root(<<".">>), <<"x">>),
      from_path_buf(<<".", "/", "x">>),
      root(<<"/", "t", "/", "x">>) }

NoPut == <<>>

DashSet_insert_AlwaysNew(set, path) ==
    [set |-> set \cup {path}, new |-> TRUE]

\* DashSet::insert: true if the set did not hold an equal value before
DashSet_insert(set, path) ==
    [set |-> set \cup {path},
     new |-> ~(\E other \in set : LinkedPath_eq(other, path))]

SinkInit ==
    /\ GroupIdle
    /\ OrderIdle
    /\ RunIdle
    /\ MachineIdle
    /\ FilterIdle
    /\ PathIdle
    /\ WalkIdle
    /\ SizeIdle
    /\ exists = Files
    /\ seen = {}
    /\ sinkOut = <<>>
    /\ sinkPc = [t \in Threads |-> NoPut]
    /\ nPut = [p \in SinkPaths |-> 0]

\* input_source.rs:54: put up to the insert
Put(t, path) ==
    /\ sinkPc[t] = NoPut
    /\ nPut[path] < MaxPut
    /\ LET r == DashSet_insert(seen, path)
       IN /\ seen' = r.set
          /\ sinkPc' = [sinkPc EXCEPT ![t] = IF r.new THEN path ELSE NoPut]
    /\ nPut' = [nPut EXCEPT ![path] = @ + 1]
    /\ UNCHANGED sinkOut

\* input_source.rs:55: self.1.put(path)
Forward(t) ==
    /\ sinkPc[t] # NoPut
    /\ sinkOut' = Append(sinkOut, [path |-> sinkPc[t], by |-> t])
    /\ sinkPc' = [sinkPc EXCEPT ![t] = NoPut]
    /\ UNCHANGED <<seen, nPut>>

SinkNext ==
    /\ \E t \in Threads :
          \/ \E path \in SinkPaths : Put(t, path)
          \/ Forward(t)
    /\ UNCHANGED <<exists, groupVars, orderVars, runVars, machineVars,
                   filterVars, pathVars, walkVars, sizeVars>>

SpecSink == SinkInit /\ [][SinkNext]_vars

\* how often path was or is about to be handed to the downstream sink
Forwards(path) ==
    Cardinality({i \in 1..Len(sinkOut) : sinkOut[i].path = path})
    + Cardinality({t \in DOMAIN sinkPc : sinkPc[t] = path})

\* C17: under every interleaving each distinct path that was put is forwarded once, by the put that inserted it, and never a second time; the set of seen paths only grows.
C17_EachPathForwardedOnce ==
    /\ [](\A path \in DOMAIN nPut :
             Forwards(path) = IF nPut[path] > 0 THEN 1 ELSE 0)
    /\ [][seen \subseteq seen']_vars

\* a path was put a second time while the thread whose put inserted it has
\* not yet forwarded it: the second put forwards nothing
C17_Witness ==
    \E path \in DOMAIN nPut : \E t \in DOMAIN sinkPc :
        /\ nPut[path] = 2
        /\ sinkPc[t] = path
        /\ \A u \in DOMAIN sinkPc \ {t} : sinkPc[u] = NoPut
        /\ sinkOut = <<>>

----------------------------------------------------------------------------
(***************************************************************************)
(* DiscoveringInputSource (input_source.rs:66-228) over the directory tree *)
(*     /r        f (file)    d (directory)                                 *)
(*     /r/d      g (file)    l (symbolic link)                             *)
(*     /s        h (file)    k (symbolic link)                             *)
(* The links' targets are chosen when the walk starts.  No file filter is  *)
(* configured, so keep_file keeps every file.                              *)
(***************************************************************************)
DirR == <<"/", "r">>

DirD == <<"/", "r", "/", "d">>

DirS == <<"/", "s">>

FileF == <<"/", "r", "/", "f">>

Missing == <<"/", "r", "/", "m">>

Links == {"l", "k"}

LinkTargets == {DirR, DirD, DirS, FileF, Missing}

\* std::fs::read_dir: the entries of a directory, None if it cannot be read
read_dir(path) ==
    IF path = DirR
    THEN SomeOs(<< [name |-> <<"f">>, type |-> "file"],
                   [name |-> <<"d">>, type |-> "dir"] >>)
    ELSE IF path = DirD
    THEN SomeOs(<< [name |-> <<"g">>, type |-> "file"],
                   [name |-> <<"l">>, type |-> "symlink"] >>)
    ELSE IF path = DirS
    THEN SomeOs(<< [name |-> <<"h">>, type |-> "file"],
                   [name |-> <<"k">>, type |-> "symlink"] >>)
    ELSE NoneOs

\* Path::canonicalize of a link of the tree: where it points to, None when
\* the target does not exist
canonicalize(path, targets) ==
    LET t == IF path = push(DirD, <<"l">>) THEN targets["l"]
             ELSE IF path = push(DirS, <<"k">>) THEN targets["k"]
             ELSE path
    IN IF t = Missing THEN NoneOs ELSE SomeOs(t)

\* std::fs::metadata of a canonical path: is_dir / is_file
is_dir(path) == path \in {DirR, DirD, DirS}

\* input_source.rs:164-182
handle_symlink(w, path_acc, entry, rec, targets) ==
    LET link == push(path_acc, entry.name)
        actual_path == canonicalize(link, targets)
    IN IF ~actual_path.some THEN w
       ELSE LET actual_lpath == from_path_buf(actual_path.v)
            IN IF ~is_dir(actual_path.v)
               THEN [w EXCEPT !.out = @ \cup {actual_lpath}]
               ELSE IF rec
               THEN [w EXCEPT !.sources = Append(@, actual_lpath)]
               ELSE w

\* input_source.rs:185-209
consume_entry(w, path_acc, entry, dir_path, rec, follow, targets) ==
    IF entry.type = "file"
    THEN [w EXCEPT !.out = @ \cup {new_child(dir_path, entry.name)}]
    ELSE IF entry.type = "dir" /\ rec
    THEN [w EXCEPT !.sources = Append(@, new_child(dir_path, entry.name))]
    ELSE IF entry.type = "symlink" /\ follow
    THEN handle_symlink(w, path_acc, entry, rec, targets)
    ELSE w

RECURSIVE consume_entries(_, _, _, _, _, _, _)
consume_entries(w, path_acc, entries, dir_path, rec, follow, targets) ==
    IF entries = <<>> THEN w
    ELSE consume_entries(
             consume_entry(w, path_acc, Head(entries), dir_path, rec, follow,
                           targets),
             path_acc, Tail(entries), dir_path, rec, follow, targets)

WalkInit ==
    /\ GroupIdle
    /\ OrderIdle
    /\ RunIdle
    /\ MachineIdle
    /\ FilterIdle
    /\ PathIdle
    /\ SinkIdle
    /\ SizeIdle
    /\ exists = Files
    /\ recurse \in BOOLEAN
    /\ follow_symlink \in BOOLEAN
    /\ linkTarget \in [Links -> LinkTargets]
    /\ sources \in {<<from_path_buf(DirR)>>, <<from_path_buf(DirS)>>,
                    <<from_path_buf(DirS), from_path_buf(DirR)>>}
    /\ walkOut = {}
    /\ walkPc = "loop"

\* input_source.rs:223-225 with consume_one (210-218): one round of the
\* while loop
ConsumeOne ==
    /\ walkPc = "loop"
    /\ sources # <<>>
    /\ \E source \in {sources[Len(sources)]} :
       \E path_acc \in {to_push_buf(source)} :
       \E current_dir \in {read_dir(path_acc)} :
       \E w \in {IF ~current_dir.some
                 THEN [sources |-> SubSeq(sources, 1, Len(sources) - 1),
                       out |-> walkOut]
                 ELSE consume_entries(
                          [sources |-> SubSeq(sources, 1, Len(sources) - 1),
                           out |-> walkOut],
                          path_acc, current_dir.v, source, recurse,
                          follow_symlink, linkTarget)} :
          /\ sources' = w.sources
          /\ walkOut' = w.out
    /\ UNCHANGED <<recurse, follow_symlink, linkTarget, walkPc>>

\* input_source.rs:223, 226: sources.pop() is None, Ok(())
WalkReturn ==
    /\ walkPc = "loop"
    /\ sources = <<>>
    /\ walkPc' = "done"
    /\ UNCHANGED <<recurse, follow_symlink, linkTarget, sources, walkOut>>

WalkNext ==
    /\ \/ ConsumeOne
       \/ WalkReturn
    /\ UNCHANGED <<exists, groupVars, orderVars, runVars, machineVars,
                   filterVars, pathVars, sinkVars, sizeVars>>

SpecWalk == WalkInit /\ [][WalkNext]_vars

\* the thread running consume_all keeps running
SpecWalkLive == SpecWalk /\ WF_vars(WalkNext)

\* C18: consume_all returns for every directory tree and every configuration, also when a followed symbolic link points to a directory above it.
C18_ConsumeAllReturns == <>(walkPc = "done")

----------------------------------------------------------------------------
(***************************************************************************)
(* The file size parser (parse_cli/parse_file_size.rs).  A text is a       *)
(* sequence of characters.  A u64 is held as WordLimbs digits of base      *)
(* LimbBase, the least significant first, so that the 64 bit arithmetic    *)
(* of checked_mul and checked_add is computed exactly.                     *)
(***************************************************************************)
LimbBase == 256

WordLimbs == 8

\* the function f over 1..n as a sequence
AsSeq(f) == SubSeq(f, 1, Len(f))

Zero(n) == AsSeq([i \in 1..n |-> 0])

\* the number k < LimbBase in n limbs
FromSmall(k, n) == AsSeq([i \in 1..n |-> IF i = 1 THEN k ELSE 0])

\* x * m + a for m, a < LimbBase: the limbs of the result and the carry out
MulAdd(x, m, a) ==
    LET n == Len(x)
        t[i \in 0..n] == IF i = 0 THEN a ELSE (x[i] * m + t[i - 1]) \div LimbBase
    IN [v |-> AsSeq([i \in 1..n |-> (x[i] * m + t[i - 1]) % LimbBase]),
        carry |-> t[n]]

\* The factors of parse_file_size.rs:47-59 and 128, each in limbs.
\* 10^3 = 1000
Pow10_3 == <<232, 3, 0, 0, 0, 0, 0, 0>>

\* 2^10 = 1024
Pow2_10 == <<0, 4, 0, 0, 0, 0, 0, 0>>

\* 10^6 = 1000000
Pow10_6 == <<64, 66, 15, 0, 0, 0, 0, 0>>

\* 2^20 = 1048576
Pow2_20 == <<0, 0, 16, 0, 0, 0, 0, 0>>

\* 10^9 = 1000000000
Pow10_9 == <<0, 202, 154, 59, 0, 0, 0, 0>>

\* 2^30 = 1073741824
Pow2_30 == <<0, 0, 0, 64, 0, 0, 0, 0>>

\* 10^12 = 1000000000000
Pow10_12 == <<0, 16, 165, 212, 232, 0, 0, 0>>

\* 2^40 = 1099511627776
Pow2_40 == <<0, 0, 0, 0, 0, 1, 0, 0>>

\* 10^15 = 1000000000000000
Pow10_15 == <<0, 128, 198, 164, 126, 141, 3, 0>>

\* 2^50 = 1125899906842624
Pow2_50 == <<0, 0, 0, 0, 0, 0, 4, 0>>

\* 10^18 = 1000000000000000000
Pow10_18 == <<0, 0, 100, 167, 179, 182, 224, 13>>

\* 2^60 = 1152921504606846976
Pow2_60 == <<0, 0, 0, 0, 0, 0, 0, 16>>

\* 2 << 60 = 2305843009213693952
TwoShl60 == <<0, 0, 0, 0, 0, 0, 0, 32>>

\* the full product of x and y, in Len(x) + Len(y) limbs
WideMul(x, y) ==
    LET n == Len(x) + Len(y)
        RECURSIVE Col(_, _)
        Col(k, i) ==
            IF i > Len(x) THEN 0
            ELSE (IF k + 1 - i \in 1..Len(y) THEN x[i] * y[k + 1 - i] ELSE 0)
                 + Col(k, i + 1)
        c[k \in 0..n] == IF k = 0 THEN 0 ELSE (Col(k, 1) + c[k - 1]) \div LimbBase
    IN AsSeq([k \in 1..n |-> (Col(k, 1) + c[k - 1]) % LimbBase])

\* x extended or cut to n limbs
Limbs(x, n) == AsSeq([i \in 1..n |-> IF i <= Len(x) THEN x[i] ELSE 0])

Fits(x, n) == \A i \in (n + 1)..Len(x) : x[i] = 0

\* Option<u64>
NoneU == [some |-> FALSE]

SomeU(v) == [some |-> TRUE, v |-> v]

\* the Option a checked operation returns for the result r of MulAdd
Checked(r) == IF r.carry = 0 THEN SomeU(r.v) ELSE NoneU

\* u64::checked_mul by a radix, u64::checked_add of a digit
checked_mul_small(x, m) == CHOOSE o \in {Checked(r) : r \in {MulAdd(x, m, 0)}} : TRUE

checked_add_small(x, a) == CHOOSE o \in {Checked(r) : r \in {MulAdd(x, 1, a)}} : TRUE

\* acc.checked_mul(radix).and_then(|acc| acc.checked_add(digit))
mul_then_add(acc, radix, digit) ==
    CHOOSE o \in {IF m.some THEN checked_add_small(m.v, digit) ELSE NoneU :
                    m \in {checked_mul_small(acc, radix)}} : TRUE

\* u64::checked_mul
checked_mul(x, y) ==
    CHOOSE o \in {IF Fits(p, WordLimbs) THEN SomeU(Limbs(p, WordLimbs)) ELSE NoneU :
                    p \in {WideMul(x, y)}} : TRUE

DecimalChars == <<"0", "1", "2", "3", "4", "5", "6", "7", "8", "9">>

UpperChars ==
    <<"A", "B", "C", "D", "E", "F", "G", "H", "I", "J", "K", "L", "M",
      "N", "O", "P", "Q", "R", "S", "T", "U", "V", "W", "X", "Y", "Z">>

LowerChars ==
    <<"a", "b", "c", "d", "e", "f", "g", "h", "i", "j", "k", "l", "m",
      "n", "o", "p", "q", "r", "s", "t", "u", "v", "w", "x", "y", "z">>

\* position of c in chars, 0 if it is not among them
IndexOf(c, chars) ==
    IF \E i \in 1..Len(chars) : chars[i] = c
    THEN CHOOSE i \in 1..Len(chars) : chars[i] = c
    ELSE 0

\* char::to_ascii_uppercase
to_ascii_uppercase(c) ==
    IF IndexOf(c, LowerChars) > 0 THEN UpperChars[IndexOf(c, LowerChars)] ELSE c

\* str::to_ascii_lowercase
lower(text) ==
    [i \in 1..Len(text) |->
        IF IndexOf(text[i], UpperChars) > 0
        THEN LowerChars[IndexOf(text[i], UpperChars)] ELSE text[i]]

starts_with(text, prefix) ==
    Len(text) >= Len(prefix) /\ SubSeq(text, 1, Len(prefix)) = prefix

\* parse_file_size.rs:159-163: '0'..='9' => char - b'0', 'A'..='F' => char - b'A'
add_amount(char) ==
    IF IndexOf(char, DecimalChars) > 0 THEN IndexOf(char, DecimalChars) - 1
    ELSE IndexOf(char, UpperChars) - 1

IsHexChar(char) ==
    IndexOf(char, DecimalChars) > 0 \/ IndexOf(char, UpperChars) \in 1..6

\* The parser's position: pc names the code it is in, text is the text the
\* digit loop reads and i the position of its next character.
NoParse == [pc |-> "none"]

\* parse_file_size.rs:18-29: the prefix selects the digit loop
parse_ref_start(value) ==
    LET rest == SubSeq(value, 3, Len(value))
        loop(pc, text, radix) ==
            [pc |-> pc, text |-> text, i |-> 1, acc |-> Zero(WordLimbs),
             radix |-> radix, last_e |-> FALSE]
    IN IF starts_with(value, <<"0", "b">>) \/ starts_with(value, <<"0", "B">>)
       THEN loop("number", rest, 2)
       ELSE IF starts_with(value, <<"0", "x">>) \/ starts_with(value, <<"0", "X">>)
       THEN loop("hex", rest, 16)
       ELSE IF starts_with(value, <<"0", "o">>) \/ starts_with(value, <<"0", "O">>)
       THEN loop("number", rest, 8)
       ELSE loop("number", value, 10)

\* the digit loops are left for the suffix with the literal, the remaining
\* text and the factor the hexadecimal parser may have found
ToSuffix(acc, rem, parsed) ==
    [pc |-> "suffix", acc |-> acc, rem |-> rem, parsed |-> parsed]

Failed == [pc |-> "done"]

\* parse_file_size.rs:101-113: one round of parse_number_prefix's loop
parse_number_round(st) ==
    IF st.i > Len(st.text) THEN ToSuffix(st.acc, <<>>, NoneU)
    ELSE LET d == IndexOf(st.text[st.i], DecimalChars) - 1
         IN IF d >= 0 /\ d <= st.radix - 1
            THEN LET r == mul_then_add(st.acc, st.radix, d)
                 IN IF r.some THEN [st EXCEPT !.i = @ + 1, !.acc = r.v]
                    ELSE Failed
            ELSE IF st.text[st.i] # "_"
            THEN ToSuffix(st.acc, SubSeq(st.text, st.i, Len(st.text)), NoneU)
            ELSE [st EXCEPT !.i = @ + 1]

\* parse_file_size.rs:147-171: one round of parse_hexadecimal's loop
parse_hexadecimal_round(st) ==
    IF st.i > Len(st.text) THEN [st EXCEPT !.pc = "hexend", !.text = <<>>]
    ELSE LET char == to_ascii_uppercase(st.text[st.i])
         IN IF IsHexChar(char)
            THEN LET acc1 == IF st.last_e THEN mul_then_add(st.acc, 16, 14)
                             ELSE SomeU(st.acc)
                     e == (char = "E")
                     acc2 == IF ~acc1.some THEN NoneU
                             ELSE IF e THEN acc1
                             ELSE mul_then_add(acc1.v, 16, add_amount(char))
                 IN IF acc2.some
                    THEN [st EXCEPT !.i = @ + 1, !.acc = acc2.v, !.last_e = e]
                    ELSE Failed
            ELSE IF char # "_"
            THEN [st EXCEPT !.pc = "hexend",
                            !.text = SubSeq(st.text, st.i, Len(st.text))]
            ELSE [st EXCEPT !.i = @ + 1]

\* parse_file_size.rs:122-139: partial_parse_hexadecimal_filesize after
\* parse_hexadecimal; st.text is the remaining text
partial_parse_hexadecimal_filesize(st) ==
    LET remaining == st.text
        with_e == mul_then_add(st.acc, 16, 14)
    IN IF st.last_e /\ remaining = <<>>
       THEN IF with_e.some THEN ToSuffix(with_e.v, remaining, NoneU) ELSE Failed
       ELSE IF remaining # <<>> /\ st.last_e
       THEN IF remaining \in {<<"i", "b">>, <<"i", "B">>, <<"I", "b">>, <<"I", "B">>}
            THEN ToSuffix(st.acc, remaining, SomeU(TwoShl60))
            ELSE IF remaining \in {<<"b">>, <<"B">>}
            THEN ToSuffix(st.acc, remaining, SomeU(Pow10_18))
            ELSE IF with_e.some THEN ToSuffix(with_e.v, remaining, NoneU)
            ELSE Failed
       ELSE ToSuffix(st.acc, remaining, NoneU)

\* parse_file_size.rs:46-60: the names of the supported suffixes
Suffixes ==
    { <<>>, <<"k", "b">>, <<"k", "i", "b">>, <<"m", "b">>, <<"m", "i", "b">>,
      <<"g", "b">>, <<"g", "i", "b">>, <<"t", "b">>, <<"t", "i", "b">>,
      <<"p", "b">>, <<"p", "i", "b">>, <<"e", "b">>, <<"e", "i", "b">> }

\* parse_file_size.rs:33-38: parse_suffix; the match has no arm for another
\* text (unreachable!)
parse_suffix(suffix) ==
    CASE suffix = <<>> -> SomeU(FromSmall(1, WordLimbs))
      [] suffix = <<"k", "b">> -> SomeU(Pow10_3)
      [] suffix = <<"k", "i", "b">> -> SomeU(Pow2_10)
      [] suffix = <<"m", "b">> -> SomeU(Pow10_6)
      [] suffix = <<"m", "i", "b">> -> SomeU(Pow2_20)
      [] suffix = <<"g", "b">> -> SomeU(Pow10_9)
      [] suffix = <<"g", "i", "b">> -> SomeU(Pow2_30)
      [] suffix = <<"t", "b">> -> SomeU(Pow10_12)
      [] suffix = <<"t", "i", "b">> -> SomeU(Pow2_40)
      [] suffix = <<"p", "b">> -> SomeU(Pow10_15)
      [] suffix = <<"p", "i", "b">> -> SomeU(Pow2_50)
      [] suffix = <<"e", "b">> -> SomeU(Pow10_18)
      [] suffix = <<"e", "i", "b">> -> SomeU(Pow2_60)
      [] OTHER -> NoneU

\* parse_file_size.rs:61-63: PossibleValuesParser accepts a text that is one
\* of the names, letter case ignored (the arguments set ignore_case,
\* parse_cli/mod.rs:129, 135), and hands the text on as it was typed
PossibleValuesParser_parse_ref(rem) ==
    IF \E name \in Suffixes : lower(rem) = name THEN SomeOs(rem) ELSE NoneOs

\* parse_file_size.rs:41-68: the factor, then the product
parse_ref_finish(st) ==
    LET accepted == PossibleValuesParser_parse_ref(st.rem)
        file_size_mod ==
            IF st.parsed.some THEN [kind |-> "Ok", v |-> st.parsed.v]
            ELSE IF st.rem = <<>>
            THEN [kind |-> "Ok", v |-> FromSmall(1, WordLimbs)]
            ELSE IF ~accepted.some THEN [kind |-> "Err"]
            ELSE IF parse_suffix(accepted.v).some
            THEN [kind |-> "Ok", v |-> parse_suffix(accepted.v).v]
            ELSE [kind |-> "Panic"]
    IN IF file_size_mod.kind # "Ok" THEN [kind |-> file_size_mod.kind]
       ELSE LET final_file_size == checked_mul(st.acc, file_size_mod.v)
            IN IF final_file_size.some
               THEN [kind |-> "Ok", v |-> final_file_size.v]
               ELSE [kind |-> "Err"]

DecimalDigits ==
    { <<"0">>,
      <<"7">>,
      <<"1", "_", "0", "0", "0">>,
      <<"1", "8", "4", "4", "6", "7", "4", "4", "0", "7", "3", "7", "0", "9", "5", "5", "1", "6", "1", "5">>,
      <<"1", "8", "4", "4", "6", "7", "4", "4", "0", "7", "3", "7", "0", "9", "5", "5", "1", "6", "1", "6">>,
      <<"1", "8", "_", "4", "4", "6", "_", "7", "4", "4", "_", "0", "7", "3", "_", "7", "0", "9", "_", "5", "5", "2">> }

HexDigits ==
    { <<"A">>,
      <<"f", "f">>,
      <<"1", "E">>,
      <<"E">>,
      <<"1", "_", "0">>,
      <<"F", "F", "F", "F", "F", "F", "F", "F", "F", "F", "F", "F", "F", "F", "F", "F">>,
      <<"1", "0", "0", "0", "0", "0", "0", "0", "0", "0", "0", "0", "0", "0", "0", "0", "0">>,
      <<"e", "_", "1">> }

OctalDigits ==
    { <<"7">>,
      <<"1", "_", "7">>,
      <<"1", "7", "7", "7", "7", "7", "7", "7", "7", "7", "7", "7", "7", "7", "7", "7", "7", "7", "7", "7", "7", "7">>,
      <<"2", "0", "0", "0", "0", "0", "0", "0", "0", "0", "0", "0", "0", "0", "0", "0", "0", "0", "0", "0", "0", "0">> }

BinaryDigits ==
    { <<"1">>,
      <<"1", "_", "0", "1">>,
      <<"1", "1", "1", "1">>,
      <<"1", "_", "0", "0", "0", "0">> }

SuffixSpellings ==
    { <<>>,
      <<"k", "b">>,
      <<"K", "B">>,
      <<"K", "i", "B">>,
      <<"k", "i", "b">>,
      <<"m", "b">>,
      <<"M", "i", "B">>,
      <<"G", "B">>,
      <<"g", "i", "b">>,
      <<"T", "b">>,
      <<"t", "i", "b">>,
      <<"P", "B">>,
      <<"P", "i", "B">>,
      <<"e", "b">>,
      <<"E", "i", "B">> }

\* The size literals: a radix prefix, digits with separators, a suffix.
SizeLiterals ==
    {[radix |-> 10, prefix |-> <<>>, digits |-> d, suffix |-> s] :
        d \in DecimalDigits, s \in SuffixSpellings}
    \cup {[radix |-> 16, prefix |-> p, digits |-> d, suffix |-> s] :
        p \in {<<"0", "x">>, <<"0", "X">>}, d \in HexDigits,
        s \in SuffixSpellings \ {<<"e", "b">>}}
    \cup {[radix |-> 8, prefix |-> p, digits |-> d, suffix |-> s] :
        p \in {<<"0", "o">>, <<"0", "O">>}, d \in OctalDigits,
        s \in SuffixSpellings}
    \cup {[radix |-> 2, prefix |-> p, digits |-> d, suffix |-> s] :
        p \in {<<"0", "b">>, <<"0", "B">>}, d \in BinaryDigits,
        s \in SuffixSpellings}

SizeInit ==
    /\ GroupIdle
    /\ OrderIdle
    /\ RunIdle
    /\ MachineIdle
    /\ FilterIdle
    /\ PathIdle
    /\ SinkIdle
    /\ WalkIdle
    /\ exists = Files
    /\ sizeArg \in SizeLiterals
    /\ sizeSt = NoParse
    /\ sizeRet = NoSizeResult

\* the parser moves on to st; a failed digit loop is the overflow error
SizeStep(st) ==
    /\ sizeSt' = st
    /\ sizeRet' = IF st = Failed THEN [kind |-> "Err"] ELSE sizeRet
    /\ UNCHANGED sizeArg

ParseRefStart ==
    /\ sizeSt = NoParse
    /\ SizeStep(parse_ref_start(sizeArg.prefix \o sizeArg.digits \o sizeArg.suffix))

ParseNumberRound ==
    /\ sizeSt.pc = "number"
    /\ \E st \in {parse_number_round(sizeSt)} : SizeStep(st)

ParseHexadecimalRound ==
    /\ sizeSt.pc = "hex"
    /\ \E st \in {parse_hexadecimal_round(sizeSt)} : SizeStep(st)

PartialParseHexadecimal ==
    /\ sizeSt.pc = "hexend"
    /\ \E st \in {partial_parse_hexadecimal_filesize(sizeSt)} : SizeStep(st)

ParseRefFinish ==
    /\ sizeSt.pc = "suffix"
    /\ sizeSt' = [pc |-> "done"]
    /\ sizeRet' = parse_ref_finish(sizeSt)
    /\ UNCHANGED sizeArg

SizeNext ==
    /\ \/ ParseRefStart
       \/ ParseNumberRound
       \/ ParseHexadecimalRound
       \/ PartialParseHexadecimal
       \/ ParseRefFinish
    /\ UNCHANGED <<exists, groupVars, orderVars, runVars, machineVars,
                   filterVars, pathVars, sinkVars, walkVars>>

SpecSize == SizeInit /\ [][SizeNext]_vars

\* the value of a digit character in its radix
DigitValue(c) ==
    IF IndexOf(c, DecimalChars) > 0 THEN IndexOf(c, DecimalChars) - 1
    ELSE IndexOf(to_ascii_uppercase(c), UpperChars) + 9

RECURSIVE NumericValue(_, _, _, _)
\* the number the first k of the digits write in the radix, separators left
\* out, in n limbs
NumericValue(digits, k, radix, n) ==
    IF k = 0 THEN Zero(n)
    ELSE CHOOSE v \in
             {IF digits[k] = "_" THEN front
              ELSE MulAdd(front, radix, DigitValue(digits[k])).v :
                 front \in {NumericValue(digits, k - 1, radix, n)}} : TRUE

\* the factor a suffix stands for
SuffixFactor(suffix) ==
    LET name == lower(suffix)
    IN CASE name = <<>> -> FromSmall(1, WordLimbs)
         [] name = <<"k", "b">> -> Pow10_3
         [] name = <<"k", "i", "b">> -> Pow2_10
         [] name = <<"m", "b">> -> Pow10_6
         [] name = <<"m", "i", "b">> -> Pow2_20
         [] name = <<"g", "b">> -> Pow10_9
         [] name = <<"g", "i", "b">> -> Pow2_30
         [] name = <<"t", "b">> -> Pow10_12
         [] name = <<"t", "i", "b">> -> Pow2_40
         [] name = <<"p", "b">> -> Pow10_15
         [] name = <<"p", "i", "b">> -> Pow2_50
         [] name = <<"e", "b">> -> Pow10_18
         [] name = <<"e", "i", "b">> -> Pow2_60

\* the literal's value times its suffix's factor, in full
FullProduct(l) ==
    CHOOSE p \in
        {WideMul(v, f) :
            v \in {NumericValue(l.digits, Len(l.digits), l.radix, 2 * WordLimbs)},
            f \in {SuffixFactor(l.suffix)}} : TRUE

\* C20: the parser returns the literal's numeric value times the suffix's factor when that fits in 64 bits and reports an error when it does not.
C20_ParsesValueTimesFactor ==
    sizeSt.pc = "done" =>
        \E p \in {FullProduct(sizeArg)} :
            IF Fits(p, WordLimbs)
            THEN sizeRet = [kind |-> "Ok", v |-> Limbs(p, WordLimbs)]
            ELSE sizeRet = [kind |-> "Err"]

(***************************************************************************)
(* The replace-with-hardlink action inside a run (SpecRun).                *)
(***************************************************************************)
\* The step is a call of the replace-with-hardlink action.
HardLinkCalled ==
    /\ InCall
    /\ fileAction = "rehardlink"
    /\ lastEvent'.kind = "invoked"

\* C21: a call of the replace-with-hardlink action returns Fatal exactly
\* when the duplicate was removed and no link stands in its place
\* afterwards; a call that returns Recoverable removed nothing and linked
\* nothing (the file system is as before); a call that returns Ok found the
\* duplicate and leaves a file at its path.
C21_HardLinkResultFollowsSteps ==
    [][HardLinkCalled =>
         LET path == lastEvent'.path
             result == lastEvent'.result
         IN /\ result \in {"Ok", "Recoverable", "Fatal"}
            /\ (result = "Fatal") <=> (path \in exists /\ path \notin exists')
            /\ (result = "Recoverable") => exists' = exists
            /\ (result = "Ok") => (path \in exists /\ path \in exists')]_vars

\* The link failed although the original is there: the duplicate is gone
\* and the call returned Fatal.
C21_Witness ==
    /\ fileAction = "rehardlink"
    /\ lastEvent.kind = "invoked"
    /\ lastEvent.result = "Fatal"
    /\ lastEvent.path \notin exists
    /\ lastEvent.original \in exists
    /\ lastEvent.original # lastEvent.path

(***************************************************************************)
(* SpecPipe: main's finalisation loop (main.rs:116-132) as in SpecRun,     *)
(* with the ordering stack parse_set_order builds from the command line    *)
(* and on a platform that may not expose creation times.                   *)
(***************************************************************************)
\* The setorder options of the runs.
PipeDeclared == {<<>>, <<"createtime">>, <<"createtime", "modtime">>}

PipeInit ==
    /\ GroupIdle
    /\ MachineIdle
    /\ InputIdle
    /\ exists \in {Files \ gone : gone \in SUBSET OrdFiles}
    /\ mtime = [f \in Files |-> FileMTime(f)]
    /\ hasModTime = TRUE
    /\ ctime = [f \in Files |-> FileCTime(f)]
    /\ hasCreateTime \in BOOLEAN
    /\ symlinks = {}
    /\ ordFiles = <<>>
    /\ ordIn = <<>>
    /\ ordLast = NoOrder
    /\ nOrders = 0
    /\ declared \in PipeDeclared
    /\ stack = parse_set_order(declared)
    /\ stackPc = "none"
    /\ ordOnce = <<>>
    /\ orderSet = stack
    /\ consumer \in Consumers
    /\ fileAction \in FileActions
    /\ runPc = "ready"
    /\ handed = <<>>
    /\ curSet = <<>>
    /\ dupIdx = 0
    /\ lastEvent = NoEvent
    /\ consumeRet = "none"
    /\ fatalSeen = FALSE
    /\ startAlive = 0
    /\ recovered = FALSE
    /\ orderErr = FALSE
    /\ takenLen = 0

SpecPipe == PipeInit /\ [][RunNext]_vars

\* consume_set was called for the set main took last.
Consumed == consumeRet # "none"

\* C22: every set a consume_set call receives holds at least two files;
\* a set that holds fewer than two files when main takes it, or after the
\* orderings ran on it (they drop missing files, and empty the set when
\* they fail), is not handed to the consumer.
C22_ConsumerGetsTwoOrMore ==
    /\ Consumed => Len(handed) >= 2
    /\ takenLen <= 1 => ~Consumed

\* A set of three was taken, the orderings dropped a missing file, and the
\* remaining two were handed to the consumer.
C22_Witness ==
    /\ takenLen = 3
    /\ Consumed
    /\ Len(handed) = 2

\* C27: once the creation-time ordering has failed on a platform without
\* creation times, with Err(AlreadyReportedError), no consume_set call is
\* made: the failing call and every later turn of main's loop leave the
\* consumer without a set.
C27_NoConsumeAfterCreateTimeFailure ==
    orderErr =>
        /\ ~hasCreateTime
        /\ ~Consumed
        /\ handed = <<>>
        /\ runPc \in {"ready", "done"}

\* The ordering failed on a set of two or more, and a further set of two
\* or more was taken after that; nothing was handed on.
C27_Witness ==
    /\ orderErr
    /\ ~hasCreateTime
    /\ takenLen >= 2
    /\ ~Consumed
    /\ runPc = "done"

(***************************************************************************)
(* Properties of single place_into_file_set calls (SpecGroup).             *)
(***************************************************************************)
\* The step is a place_into_file_set call.
Placed == nCalls' = nCalls + 1

\* The call of this step changed set i of bucket h, which held files
\* before, and the arriving file is now its last element.
AppendedTo(h, i) ==
    /\ i <= Len(target[h])
    /\ target[h][i][2] # <<>>
    /\ target'[h][i] # target[h][i]
    /\ LET S == target'[h][i][2]
       IN S # <<>> /\ S[Len(S)].file_path = placeCall'.file

\* C23: a call appends the arriving file to a set that held files only
\* after a verification against the set's first element returned equal:
\* after first-side errors removed leading elements, the file is verified
\* against the element that is first now, and a set whose elements were
\* all removed does not take the file.
C23_AppendedOnlyAfterEqualRetry ==
    [][Placed =>
         \A h \in DOMAIN target : \A i \in 1..Len(target'[h]) :
             AppendedTo(h, i) =>
                 LET S == target'[h][i][2]
                 IN /\ Len(S) >= 2
                    /\ ChainEqual(S[1].file_path, placeCall'.file)]_vars

(***************************************************************************)
(* SpecVerify: place_into_file_set (main.rs:187-253) with a refiner chain  *)
(* that holds a checker able to report both sides as faulty.               *)
(***************************************************************************)
ProbeChains == {<<"probe">>, <<"probe", "content">>}

VerifyInit ==
    /\ OrderIdle
    /\ RunIdle
    /\ MachineIdle
    /\ InputIdle
    /\ exists = Files
    /\ target = [h \in 0..(HashSpace - 1) |-> <<>>]
    /\ refiners \in ProbeChains
    /\ placeCall = NoCall
    /\ nCalls = 0
    /\ nVanish = 0
    /\ chainCall = NoChainCall

SpecVerify == VerifyInit /\ [][GroupNext]_vars

\* What the chain reports for first and file when ex are the readable
\* files: the answer of the first refiner that does not return Ok(true).
ChainReport(first, file, ex) ==
    LET res == [k \in 1..Len(refiners) |->
                   refiner_check_equal(refiners[k], first, file, ex)]
        stop == {k \in 1..Len(refiners) : ~(res[k].ok /\ res[k].eq)}
    IN IF stop = {} THEN "equal"
       ELSE LET k == CHOOSE m \in stop : \A n \in stop : m <= n
            IN IF res[k].ok THEN "unequal" ELSE res[k].err

ContentDigest(f) == Digest128(hash_source(HasherDefault, FileContent(f)))

\* The call of this step verified its file against set i of bucket h: the
\* file was hashed, the set holds files and has the file's content digest,
\* and the sets of that digest before it were found unequal.  The files
\* readable during verification are those that exist after the call.
VerifiedAgainst(h, i) ==
    LET f == placeCall'.file
    IN /\ placeCall'.err = "none"
       /\ h = CompositeDigest(f)
       /\ i \in 1..Len(target[h])
       /\ target[h][i][1] = ContentDigest(f)
       /\ target[h][i][2] # <<>>
       /\ \A j \in 1..(i - 1) :
             target[h][j][1] = ContentDigest(f) =>
                 /\ target[h][j][2] # <<>>
                 /\ ChainReport(target[h][j][2][1].file_path, f, exists') = "unequal"

SetsHolding(f) ==
    {hi \in {<<h, i>> : h \in DOMAIN target, i \in 1..MaxCalls} :
        /\ hi[2] <= Len(target'[hi[1]])
        /\ \E k \in 1..Len(target'[hi[1]][hi[2]][2]) :
              target'[hi[1]][hi[2]][2][k].file_path = f}

\* C25: after a call that returns Ok the arriving file is a member of
\* exactly one set: when no set of its bucket took it, a new pair
\* (content digest, [file]) was appended to the bucket.
C25_PlacedFileIsInOneSet ==
    [][(Placed /\ placeCall'.ret = "Ok")
         => Cardinality(SetsHolding(placeCall'.file)) = 1]_vars

(***************************************************************************)
(* SpecChain: FileSetRefiners (file_set_refiner.rs:6-31), the refiner      *)
(* chain as one value, asked whether two files are equal.                  *)
(***************************************************************************)
\* file_set_refiner.rs:25-30 FileSetRefiners::check_equal: every
\* refiner is asked in turn, `?` returns the first error, the answers are
\* dropped, and the loop is followed by Ok(true).
RECURSIVE FileSetRefiners_check_equal(_, _, _, _)
FileSetRefiners_check_equal(refs, a, b, ex) ==
    IF refs = <<>> THEN [ok |-> TRUE, err |-> "none", eq |-> TRUE]
    ELSE LET r == refiner_check_equal(Head(refs), a, b, ex)
         IN IF ~r.ok THEN r
            ELSE FileSetRefiners_check_equal(Tail(refs), a, b, ex)

\* file_set_refiner.rs:9-12 FileSetRefiners::new sorts the checkers by
\* work severity; the files on disk are any.
ChainInit ==
    /\ OrderIdle
    /\ RunIdle
    /\ MachineIdle
    /\ InputIdle
    /\ exists \in SUBSET Files
    /\ target = [h \in 0..(HashSpace - 1) |-> <<>>]
    /\ refiners \in RefinerChains
    /\ placeCall = NoCall
    /\ nCalls = 0
    /\ nVanish = 0
    /\ chainCall = NoChainCall

\* A call of FileSetRefiners::check_equal.
CheckEqual(a, b) ==
    /\ chainCall' = [a |-> a, b |-> b,
                     ret |-> FileSetRefiners_check_equal(refiners, a, b, exists)]
    /\ UNCHANGED <<exists, target, refiners, placeCall, nCalls, nVanish>>

ChainNext ==
    /\ \E a \in Files, b \in Files : CheckEqual(a, b)
    /\ UNCHANGED <<orderVars, runVars, machineVars, inputVars>>

SpecChain == ChainInit /\ [][ChainNext]_vars

\* C26: when the chain's check_equal returns Ok, its answer is the
\* conjunction of the refiners' answers: true when every refiner found
\* the two files equal, false when one of them did not.
C26_ChainAnswerIsConjunction ==
    (chainCall.a # "none" /\ chainCall.ret.ok) =>
        chainCall.ret.eq =
            (\A k \in 1..Len(refiners) :
                refiner_check_equal(refiners[k], chainCall.a, chainCall.b, exists).eq)

(***************************************************************************)
(* SpecOption: the size filters parse_file_filter builds from the command  *)
(* line (parse_cli/mod.rs:437-463), applied to one file by                 *)
(* FileFilter::filter_metadata (file_filters.rs:27-42).  An option that    *)
(* was not given is <<>>, one given with value n is <<n>>.                 *)
(***************************************************************************)
\* u64::saturating_sub
saturating_sub(a, b) == IF a < b THEN 0 ELSE a - b

\* parse_cli/mod.rs:437-442 and 451-453: the metadata filters, in the
\* order they are pushed.
parse_file_filter(maxfsize, minfsize, nonzerof) ==
    (IF maxfsize # <<>> THEN <<[kind |-> "max", max |-> maxfsize[1]]>> ELSE <<>>)
    \o (IF minfsize # <<>>
        THEN <<[kind |-> "min", min |-> saturating_sub(minfsize[1], 1)]>> ELSE <<>>)
    \o (IF nonzerof THEN <<[kind |-> "min", min |-> 0]>> ELSE <<>>)

\* file_filters.rs:27-42 FileFilter::filter_metadata: the first filter
\* that rejects the file ends the loop.
RECURSIVE filter_metadata(_, _)
filter_metadata(metadata_filter, len) ==
    IF metadata_filter = <<>> THEN TRUE
    ELSE LET f == Head(metadata_filter)
             result == IF f.kind = "min"
                       THEN MinSizeFileFilter_filter_file_metadata(f.min, len)
                       ELSE MaxSizeFileFilter_filter_file_metadata(f.max, len)
         IN IF ~result THEN FALSE
            ELSE filter_metadata(Tail(metadata_filter), len)

SizeOptions == {<<>>} \cup {<<n>> : n \in FileSizes}

OptionInit ==
    /\ GroupIdle
    /\ OrderIdle
    /\ RunIdle
    /\ MachineIdle
    /\ exists = Files
    /\ PathIdle
    /\ SinkIdle
    /\ WalkIdle
    /\ SizeIdle
    /\ \E maxfsize \in SizeOptions, minfsize \in SizeOptions, nonzerof \in BOOLEAN :
          filter = [kind |-> "cli", maxfsize |-> maxfsize, minfsize |-> minfsize,
                    nonzerof |-> nonzerof,
                    metadata |-> parse_file_filter(maxfsize, minfsize, nonzerof)]
    /\ filterCall = NoFilterCall

\* The filter is asked about a file of len bytes.
FilterMetadata(len) ==
    /\ filterCall' = [kind |-> "cli", len |-> len,
                      ret |-> filter_metadata(filter.metadata, len)]
    /\ UNCHANGED filter

OptionNext ==
    /\ \E len \in FileSizes : FilterMetadata(len)
    /\ UNCHANGED <<exists, groupVars, orderVars, runVars, machineVars, pathVars,
                   sinkVars, walkVars, sizeVars>>

SpecOption == OptionInit /\ [][OptionNext]_vars

\* C28: with --minsize=N as the only size option, a file passes exactly
\* when its size is at least N, for N = 0 as well.
C28_MinSizeKeepsAtLeastN ==
    (/\ filterCall.kind = "cli"
     /\ filter.minfsize # <<>>
     /\ filter.maxfsize = <<>>
     /\ ~filter.nonzerof)
    => (filterCall.ret <=> filterCall.len >= filter.minfsize[1])

\* C30: as long as no write failed, the set-wise output has no empty
\* line and does not end with a line feed: it does not start with a line
\* feed, does not end with one, and holds no two line feeds in a row.
C30_SetwiseOutputHasNoEmptyLine ==
    (mKind = "setwise" /\ NoWriteError) =>
        /\ mOut # <<>> => (mOut[1] # LF /\ mOut[Len(mOut)] # LF)
        /\ \A k \in 1..(Len(mOut) - 1) : ~(mOut[k] = LF /\ mOut[k + 1] = LF)

\* C29: no set of the grouping map holds the same path twice, also when
\* the sources send a path more than once: a file is not grouped as a
\* duplicate of itself.
C29_NoPathTwiceInASet ==
    \A h \in DOMAIN target : \A i \in 1..Len(target[h]) :
        LET S == target[h][i][2]
        IN \A j \in 1..Len(S) : \A k \in 1..Len(S) :
              S[j].file_path = S[k].file_path => j = k
====
